---- MODULE Spec2Model ----
(***************************************************************************)
(* A model of jsdoc_parser/parser.py: parse_jsdoc, _extract_type_from_braces *)
(* and _process_tag.                                                       *)
(*                                                                         *)
(* A Python str is modelled as a sequence of one-character strings, so     *)
(* "@a b" is <<"@", "a", " ", "b">>.  None is the one-element sequence     *)
(* <<"None">>, which no string equals.  A dict is a record (a function on  *)
(* its keys); result['tags'] is a sequence of [name, values] entries in    *)
(* insertion order; result['returns'] is a sequence of at most one record, *)
(* <<>> standing for None.                                                 *)
(***************************************************************************)
EXTENDS Integers, Sequences, FiniteSets, TLC

None == <<"None">>

(***************************************************************************)
(* Character classes of the regular expressions and of str.strip().  The   *)
(* characters are those of U+0000 to U+00FF.  The patterns are str         *)
(* patterns, so \w and \s take the Unicode word and whitespace characters. *)
(***************************************************************************)
Lower == {"a", "b", "c", "d", "e", "f", "g", "h", "i", "j", "k", "l", "m",
          "n", "o", "p", "q", "r", "s", "t", "u", "v", "w", "x", "y", "z"}
Upper == {"A", "B", "C", "D", "E", "F", "G", "H", "I", "J", "K", "L", "M",
          "N", "O", "P", "Q", "R", "S", "T", "U", "V", "W", "X", "Y", "Z"}
Digit == {"0", "1", "2", "3", "4", "5", "6", "7", "8", "9"}
\* the characters of U+0080 to U+00FF that \w of a str pattern matches: the
\* letters and numeric characters of Latin-1
Latin1Word ==
  {"ª", "²", "³", "µ", "¹", "º", "¼", "½", "¾", "À", "Á", "Â", "Ã",
   "Ä", "Å", "Æ", "Ç", "È", "É", "Ê", "Ë", "Ì", "Í", "Î", "Ï", "Ð",
   "Ñ", "Ò", "Ó", "Ô", "Õ", "Ö", "Ø", "Ù", "Ú", "Û", "Ü", "Ý", "Þ",
   "ß", "à", "á", "â", "ã", "ä", "å", "æ", "ç", "è", "é", "ê", "ë",
   "ì", "í", "î", "ï", "ð", "ñ", "ò", "ó", "ô", "õ", "ö", "ø", "ù",
   "ú", "û", "ü", "ý", "þ", "ÿ"}
\* \w of a str pattern, on the characters up to U+00FF
WordChar == Lower \cup Upper \cup Digit \cup {"_"} \cup Latin1Word
\* [a-zA-Z_$]
NameStart == Lower \cup Upper \cup {"_", "$"}
\* [\w$.]
NameChar == WordChar \cup {"$", "."}
\* [\w$.*]
NameCharStar == NameChar \cup {"*"}
\* \s of a str pattern and the characters str.strip() removes, on the
\* characters up to U+00FF: space, U+0009 to U+000D (tab, line feed, vertical
\* tab, form feed, carriage return), U+001C to U+001F, U+0085 and U+00A0
Space ==
  {" ", "\t", "\n", "", "\f", "\r", "", "", "", "", "",
   " "}
\* [ \t]
Blank == {" ", "\t"}

(***************************************************************************)
(* String helpers: slices, str.strip, str.startswith, str.endswith,        *)
(* str.split('\n'), str.join.                                              *)
(***************************************************************************)
Sub(s, a, b) == IF a > b THEN <<>> ELSE SubSeq(s, a, b)

From(s, a) == Sub(s, a, Len(s))

\* the length of the longest run of characters of S that starts at s[i]
RECURSIVE RunLen(_, _, _)
RunLen(s, i, S) ==
  IF i <= Len(s) /\ s[i] \in S THEN 1 + RunLen(s, i + 1, S) ELSE 0

\* the length of the longest run of characters not in S that starts at s[i]
RECURSIVE RunLenNot(_, _, _)
RunLenNot(s, i, S) ==
  IF i <= Len(s) /\ s[i] \notin S THEN 1 + RunLenNot(s, i + 1, S) ELSE 0

RECURSIVE RStrip(_)
RStrip(s) ==
  IF s # <<>> /\ s[Len(s)] \in Space THEN RStrip(Sub(s, 1, Len(s) - 1)) ELSE s

LStrip(s) == From(s, 1 + RunLen(s, 1, Space))

Strip(s) == RStrip(LStrip(s))

StartsWith(s, p) == Len(s) >= Len(p) /\ Sub(s, 1, Len(p)) = p

EndsWith(s, p) == Len(s) >= Len(p) /\ Sub(s, Len(s) - Len(p) + 1, Len(s)) = p

RECURSIVE Split(_, _)
Split(s, ch) ==
  LET n == RunLenNot(s, 1, {ch})
  IN  IF n = Len(s) THEN <<s>>
      ELSE <<Sub(s, 1, n)>> \o Split(From(s, n + 2), ch)

RECURSIVE Join(_, _)
Join(parts, sep) ==
  IF parts = <<>> THEN <<>>
  ELSE IF Len(parts) = 1 THEN parts[1]
  ELSE parts[1] \o sep \o Join(Tail(parts), sep)

Contains(s, ch) == \E k \in 1..Len(s) : s[k] = ch
(***************************************************************************)
(* parse_jsdoc, lines 32-43: the clean-up of the docstring into lines.     *)
(***************************************************************************)
OpenMarker == <<"/", "*", "*">>
CloseMarker == <<"*", "/">>

\* markers removed unseen: lines 33-39 without the tests of lines 36 and 38
StripMarkersAlways(docstring) ==
  LET d0 == Strip(docstring)
      d1 == From(d0, 4)
  IN  IF Len(d1) >= 2 THEN Sub(d1, 1, Len(d1) - 2) ELSE <<>>

\* lines 33-39
StripMarkers(docstring) ==
  LET d0 == Strip(docstring)
      d1 == IF StartsWith(d0, OpenMarker) THEN From(d0, 4) ELSE d0
  IN  IF EndsWith(d1, CloseMarker) THEN Sub(d1, 1, Len(d1) - 2) ELSE d1

\* lines 42-43 for one line: strip, re.sub(r'^[ \t]*\*', '', line), strip
CleanLine(line) ==
  LET l1 == Strip(line)
      k  == RunLen(l1, 1, Blank)
      l2 == IF k + 1 <= Len(l1) /\ l1[k + 1] = "*" THEN From(l1, k + 2) ELSE l1
  IN  Strip(l2)

CleanLines(docstring) ==
  LET raw == Split(StripMarkers(docstring), "\n")
  IN  [k \in 1..Len(raw) |-> CleanLine(raw[k])]

\* line 51: re.match(r'^@(\w+)\s*(.*)', line).  A cleaned line holds no
\* newline, so (.*) takes the rest of the line.
TagMatch(line) ==
  LET w == RunLen(line, 2, WordChar)
  IN  IF line # <<>> /\ line[1] = "@" /\ w >= 1
      THEN [matched |-> TRUE, tag |-> Sub(line, 2, 1 + w),
            rest |-> From(line, 2 + w + RunLen(line, 2 + w, Space))]
      ELSE [matched |-> FALSE, tag |-> <<>>, rest |-> <<>>]

(***************************************************************************)
(* _extract_type_from_braces, lines 92-117.  The result is the pair        *)
(* <<extracted_type, remaining_string>>.                                   *)
(***************************************************************************)
\* a scan that stops at the first "}" whatever the depth: what the loop of
\* lines 106-114 would be without brace_count
BraceScanFirst(content, i, count) ==
  LET cl == {k \in i..Len(content) : content[k] = "}"}
  IN  IF cl = {} THEN 0 ELSE CHOOSE k \in cl : \A j \in cl : k <= j

\* lines 106-114: the index of the "}" that brings brace_count back to 0 when
\* the scan is at index i with brace_count = count; 0 when there is none
RECURSIVE BraceScan(_, _, _)
BraceScan(content, i, count) ==
  IF i > Len(content) THEN 0
  ELSE IF content[i] = "{" THEN BraceScan(content, i + 1, count + 1)
  ELSE IF content[i] = "}"
       THEN IF count - 1 = 0 THEN i ELSE BraceScan(content, i + 1, count - 1)
  ELSE BraceScan(content, i + 1, count)

_extract_type_from_braces(content) ==
  IF ~StartsWith(content, <<"{">>) THEN <<None, content>>
  ELSE LET i == BraceScan(content, 1, 0)
       IN  IF i = 0 THEN <<None, content>>
           ELSE <<Sub(content, 2, i - 1), Strip(From(content, i + 1))>>

(***************************************************************************)
(* _process_tag, lines 136-142: the content lines joined into content_str. *)
(***************************************************************************)
kw_example == <<"e", "x", "a", "m", "p", "l", "e">>
kw_param == <<"p", "a", "r", "a", "m">>
kw_argument == <<"a", "r", "g", "u", "m", "e", "n", "t">>
kw_arg == <<"a", "r", "g">>
kw_returns == <<"r", "e", "t", "u", "r", "n", "s">>
kw_return == <<"r", "e", "t", "u", "r", "n">>
kw_throws == <<"t", "h", "r", "o", "w", "s">>
kw_exception == <<"e", "x", "c", "e", "p", "t", "i", "o", "n">>
kw_description == <<"d", "e", "s", "c", "r", "i", "p", "t", "i", "o", "n">>

\* line 142: [line.strip() for line in content if line.strip()]
RECURSIVE StripNonEmpty(_)
StripNonEmpty(content) ==
  IF content = <<>> THEN <<>>
  ELSE LET l == Strip(Head(content))
       IN  (IF l = <<>> THEN <<>> ELSE <<l>>) \o StripNonEmpty(Tail(content))

\* a join with spaces for every tag: line 142 without the branch of lines
\* 137-138
ContentStrSpaces(tag, content) ==
  Strip(Join(StripNonEmpty(content), <<" ">>))

ContentStr(tag, content) ==
  IF tag = kw_example THEN Strip(Join(content, <<"\n">>))
  ELSE Strip(Join(StripNonEmpty(content), <<" ">>))

(***************************************************************************)
(* _process_tag, lines 144-197: the parameter's type, name, default,       *)
(* description and optionality.                                            *)
(***************************************************************************)
NoMatch == [matched |-> FALSE, name |-> <<>>, default |-> None, desc |-> None]

\* the tail (?:\])?\s*(?:-\s*(.*))?$ of the pattern of line 154, tried at
\* index p of s: group 3 where it matches.  Each greedy choice is the only
\* one that can succeed: after a skipped "]" or a shorter whitespace run the
\* next character is neither "-" nor the end.
ParamTail(s, p) ==
  LET p1 == IF p <= Len(s) /\ s[p] = "]" THEN p + 1 ELSE p
      p2 == p1 + RunLen(s, p1, Space)
  IN  IF p2 > Len(s) THEN [matched |-> TRUE, desc |-> None]
      ELSE IF s[p2] = "-"
           THEN [matched |-> TRUE,
                 desc |-> From(s, p2 + 1 + RunLen(s, p2 + 1, Space))]
      ELSE [matched |-> FALSE, desc |-> None]

\* line 154: re.match(r'(?:\[)?([a-zA-Z_$][\w$.]*)(?:=([^]]+))?(?:\])?\s*
\* (?:-\s*(.*))?$', remaining).  The name is the longest run of name
\* characters (a shorter one is followed by a name character, which nothing
\* after the name accepts); the default is the longest run of non-"]"
\* characters after which the tail matches (greedy, then backtracking).
ParamMatch(remaining) ==
  LET b == IF StartsWith(remaining, <<"[">>) THEN 2 ELSE 1
      n == IF b <= Len(remaining) /\ remaining[b] \in NameStart
           THEN 1 + RunLen(remaining, b + 1, NameChar) ELSE 0
      e == b + n
      name == Sub(remaining, b, e - 1)
      dmax == IF e <= Len(remaining) /\ remaining[e] = "="
              THEN RunLenNot(remaining, e + 1, {"]"}) ELSE 0
      ks == {k \in 1..dmax : ParamTail(remaining, e + 1 + k).matched}
      k == CHOOSE x \in ks : \A y \in ks : y <= x
      tail == ParamTail(remaining, e)
  IN  IF n = 0 THEN NoMatch
      ELSE IF ks # {}
           THEN [matched |-> TRUE, name |-> name,
                 default |-> Sub(remaining, e + 1, e + k),
                 desc |-> ParamTail(remaining, e + 1 + k).desc]
      ELSE IF tail.matched
           THEN [matched |-> TRUE, name |-> name, default |-> None,
                 desc |-> tail.desc]
      ELSE NoMatch

\* line 161: bool(re.match(r'^\[([a-zA-Z_$][\w$.]*)(?:=[^]]+)?\]', remaining))
IsOptionalMatch(remaining) ==
  LET n == IF 2 <= Len(remaining) /\ remaining[2] \in NameStart
           THEN 1 + RunLen(remaining, 3, NameChar) ELSE 0
      e == 2 + n
      dmax == IF e <= Len(remaining) /\ remaining[e] = "="
              THEN RunLenNot(remaining, e + 1, {"]"}) ELSE 0
  IN  /\ StartsWith(remaining, <<"[">>)
      /\ n >= 1
      /\ \/ dmax >= 1 /\ e + 1 + dmax <= Len(remaining)
         \/ e <= Len(remaining) /\ remaining[e] = "]"

\* a name pattern that lets a digit lead: line 164 with [\w$.]+ for the name
NameMatchDigits(remaining) ==
  LET n == RunLen(remaining, 1, NameChar)
  IN  [matched |-> n >= 1, name |-> Sub(remaining, 1, n),
       rest |-> From(remaining, n + 1)]

\* line 164: re.match(r'^([a-zA-Z_$][\w$.]*)(.*)$', remaining)
NameMatch(remaining) ==
  LET n == IF remaining # <<>> /\ remaining[1] \in NameStart
           THEN 1 + RunLen(remaining, 2, NameChar) ELSE 0
  IN  [matched |-> n >= 1, name |-> Sub(remaining, 1, n),
       rest |-> From(remaining, n + 1)]

\* a split that drops a leading dash as the typed path does: line 179 with
\* (?:-\s*)? before the description
SimpleMatchDash(content_str) ==
  LET n == IF content_str # <<>> /\ content_str[1] \in NameStart
           THEN 1 + RunLen(content_str, 2, NameCharStar) ELSE 0
      w == RunLen(content_str, n + 1, Space)
      d == From(content_str, n + 1 + w)
  IN  [matched |-> n >= 1 /\ w >= 1, name |-> Sub(content_str, 1, n),
       desc |-> IF StartsWith(d, <<"-">>) THEN LStrip(From(d, 2)) ELSE d]

\* line 179: re.match(r'([a-zA-Z_$][\w$.*]*)\s+(.*)', content_str)
SimpleMatch(content_str) ==
  LET n == IF content_str # <<>> /\ content_str[1] \in NameStart
           THEN 1 + RunLen(content_str, 2, NameCharStar) ELSE 0
      w == RunLen(content_str, n + 1, Space)
  IN  [matched |-> n >= 1 /\ w >= 1, name |-> Sub(content_str, 1, n),
       desc |-> From(content_str, n + 1 + w)]

\* line 189: re.match(r'^[a-zA-Z_$][\w$.*]*$', content_str)
\* a name of any of the name characters, a digit first included: line 189
\* without its first class
JustNameAny(content_str) ==
  /\ content_str # <<>>
  /\ RunLen(content_str, 1, NameCharStar) = Len(content_str)

JustName(content_str) ==
  /\ content_str # <<>>
  /\ content_str[1] \in NameStart
  /\ 1 + RunLen(content_str, 2, NameCharStar) = Len(content_str)

Skipped ==
  [ok |-> FALSE, type |-> None, name |-> <<>>, desc |-> <<>>,
   default |-> None, optional |-> FALSE]

\* lines 146-197: ok is FALSE where the code returns without an entry
ParseParam(content_str) ==
  LET ex == _extract_type_from_braces(content_str)
      param_type == ex[1]
      remaining == ex[2]
      pm == ParamMatch(remaining)
      nm == NameMatch(remaining)
      remaining_text == Strip(nm.rest)
      sm == SimpleMatch(content_str)
  IN  IF param_type # None
      THEN IF pm.matched
           THEN [ok |-> TRUE, type |-> param_type, name |-> pm.name,
                 desc |-> IF pm.desc = None THEN <<>> ELSE pm.desc,
                 default |-> pm.default,
                 optional |-> IsOptionalMatch(remaining)]
           ELSE IF nm.matched
                THEN [ok |-> TRUE, type |-> param_type, name |-> nm.name,
                      desc |-> IF StartsWith(remaining_text, <<"-">>)
                               THEN Strip(From(remaining_text, 2))
                               ELSE remaining_text,
                      default |-> None, optional |-> FALSE]
           ELSE Skipped
      ELSE IF sm.matched
           THEN [ok |-> TRUE, type |-> None, name |-> sm.name,
                 desc |-> sm.desc, default |-> None, optional |-> FALSE]
           ELSE IF JustName(content_str)
                THEN [ok |-> TRUE, type |-> None, name |-> content_str,
                      desc |-> <<>>, default |-> None, optional |-> FALSE]
           ELSE Skipped

(***************************************************************************)
(* _process_tag, lines 199-251: the entry of a parameter and its place in  *)
(* result['params'].                                                       *)
(***************************************************************************)
\* `if default_value:` (lines 230, 245): neither None nor the empty string
Truthy(v) == v # None /\ v # <<>>

\* d with key k set to v, the key added where d lacks it
With(d, k, v) ==
  [x \in DOMAIN d \cup {k} |-> IF x = k THEN v ELSE d[x]]

\* a param_data that always stores the flag: lines 239-249 with line 249
\* outside its condition
ParamDataFlag(param_name, param_type, param_desc, default_value, is_optional) ==
  LET base == [name |-> param_name, type |-> param_type,
               description |-> param_desc, optional |-> is_optional]
  IN  IF Truthy(default_value)
      THEN With(With(base, "default", default_value), "optional", TRUE)
      ELSE base

\* param_data with a properties list from the start: lines 239-249 with
\* the list of lines 211-218
ParamDataProps(param_name, param_type, param_desc, default_value, is_optional) ==
  LET base == [name |-> param_name, type |-> param_type,
               description |-> param_desc, properties |-> <<>>]
  IN  IF Truthy(default_value)
      THEN With(With(base, "default", default_value), "optional", TRUE)
      ELSE IF is_optional THEN With(base, "optional", TRUE)
      ELSE base

\* lines 239-249: param_data
ParamData(param_name, param_type, param_desc, default_value, is_optional) ==
  LET base == [name |-> param_name, type |-> param_type,
               description |-> param_desc]
  IN  IF Truthy(default_value)
      THEN With(With(base, "default", default_value), "optional", TRUE)
      ELSE IF is_optional THEN With(base, "optional", TRUE)
      ELSE base

\* lines 224-234: prop_data
PropData(nested_name, param_type, param_desc, default_value, is_optional) ==
  LET base == [name |-> nested_name, type |-> param_type,
               description |-> param_desc]
  IN  IF Truthy(default_value)
      THEN With(With(base, "default", default_value), "optional", TRUE)
      ELSE IF is_optional THEN With(base, "optional", TRUE)
      ELSE base

\* param_name.split('.'), a split at every dot: line 201 without maxsplit
SplitDotEvery(param_name) == Split(param_name, ".")

\* param_name.rsplit('.', 1), a split at the last dot
SplitDotLast(param_name) ==
  LET dots == {k \in 1..Len(param_name) : param_name[k] = "."}
      d == CHOOSE k \in dots : \A j \in dots : j <= k
  IN  IF dots = {} THEN <<param_name>>
      ELSE <<Sub(param_name, 1, d - 1), From(param_name, d + 1)>>

\* line 201: param_name.split('.', 1), the list of parts
SplitDot(param_name) ==
  LET n == RunLenNot(param_name, 1, {"."})
  IN  IF n = Len(param_name) THEN <<param_name>>
      ELSE <<Sub(param_name, 1, n), From(param_name, n + 2)>>

\* a search that ends on the last parameter of the name: lines 204-208
\* without the break
FindParentLast(params, parent_name) ==
  LET found == {k \in 1..Len(params) : params[k].name = parent_name}
  IN  IF found = {} THEN 0 ELSE CHOOSE k \in found : \A j \in found : j <= k

\* a search that finds no parent: lines 204-208 without the loop
FindParentNone(params, parent_name) == 0

\* lines 204-208: the index of the first parameter named parent_name, 0 when
\* there is none
FindParent(params, parent_name) ==
  LET found == {k \in 1..Len(params) : params[k].name = parent_name}
  IN  IF found = {} THEN 0 ELSE CHOOSE k \in found : \A j \in found : k <= j

\* a parent made without a type: lines 212-217 with 'type': None
SyntheticParentBare(parent_name) ==
  [name |-> parent_name, type |-> None, description |-> <<>>,
   properties |-> <<>>]

\* lines 212-217
SyntheticParent(parent_name) ==
  [name |-> parent_name, type |-> <<"O", "b", "j", "e", "c", "t">>,
   description |-> <<>>, properties |-> <<>>]

\* lines 221-222 and 236
AppendProperty(parent_param, prop_data) ==
  IF "properties" \in DOMAIN parent_param
  THEN With(parent_param, "properties",
            Append(parent_param.properties, prop_data))
  ELSE With(parent_param, "properties", <<prop_data>>)

\* line 201 unpacks the split into two names: a ValueError with any other
\* number of parts
UnpackFails(param_name) ==
  Contains(param_name, ".") /\ Len(SplitDot(param_name)) # 2

\* lines 199-251
AddParam(params, p) ==
  IF Contains(p.name, ".")
  THEN LET parts == SplitDot(p.name)
           parent_name == parts[1]
           nested_name == parts[2]
           prop_data == PropData(nested_name, p.type, p.desc, p.default,
                                 p.optional)
           k == FindParent(params, parent_name)
       IN  IF k = 0
           THEN Append(params,
                       AppendProperty(SyntheticParent(parent_name), prop_data))
           ELSE [params EXCEPT ![k] = AppendProperty(params[k], prop_data)]
  ELSE Append(params,
              ParamData(p.name, p.type, p.desc, p.default, p.optional))

(***************************************************************************)
(* _process_tag, lines 120-287.                                            *)
(***************************************************************************)
UpperLetters ==
  <<"A", "B", "C", "D", "E", "F", "G", "H", "I", "J", "K", "L", "M",
    "N", "O", "P", "Q", "R", "S", "T", "U", "V", "W", "X", "Y", "Z">>

LowerLetters ==
  <<"a", "b", "c", "d", "e", "f", "g", "h", "i", "j", "k", "l", "m",
    "n", "o", "p", "q", "r", "s", "t", "u", "v", "w", "x", "y", "z">>

\* str.lower() of the tag name s
ToLower(s) ==
  [k \in 1..Len(s) |->
     IF \E u \in 1..26 : UpperLetters[u] = s[k]
     THEN LowerLetters[CHOOSE u \in 1..26 : UpperLetters[u] = s[k]]
     ELSE s[k]]

\* a branch taken whatever the case of the letters: line 253 on tag.lower()
IsReturnsTagAnyCase(tag) ==
  ToLower(tag) = kw_returns \/ ToLower(tag) = kw_return

\* a branch for the one name: line 144 without its aliases
IsParamTagOnly(tag) == tag = kw_param

IsParamTag(tag) == tag = kw_param \/ tag = kw_argument \/ tag = kw_arg
IsReturnsTag(tag) == tag = kw_returns \/ tag = kw_return
IsThrowsTag(tag) == tag = kw_throws \/ tag = kw_exception

\* a brace that never closes taken as a type all the same: lines 253-271
\* with the text after the "{" for the type
TypedTextUnclosed(content_str) ==
  LET ex == _extract_type_from_braces(content_str)
  IN  IF ex[1] = None /\ StartsWith(content_str, <<"{">>)
      THEN [type |-> From(content_str, 2), description |-> <<>>]
      ELSE [type |-> ex[1],
            description |-> IF ex[1] # None THEN ex[2] ELSE content_str]

\* lines 253-271: the type and description of a returns or throws tag
TypedText(content_str) ==
  LET ex == _extract_type_from_braces(content_str)
  IN  [type |-> ex[1],
       description |-> IF ex[1] # None THEN ex[2] ELSE content_str]

\* text appended after a space: lines 278-281 and 68-71 with ' ' for '\n'
AppendDescriptionSpace(description, text) ==
  IF description # <<>> THEN description \o <<" ">> \o text ELSE text

\* lines 278-281 (and 68-71): text appended to the description
AppendDescription(description, text) ==
  IF description # <<>> THEN description \o <<"\n">> \o text ELSE text

\* a store that passes over a tag with no content: lines 285-287 under
\* `if content_str`
StoreTagNonEmpty(tags, tag, content_str) ==
  LET found == {k \in 1..Len(tags) : tags[k].name = tag}
  IN  IF content_str = <<>> THEN tags
      ELSE IF found = {}
      THEN Append(tags, [name |-> tag, values |-> <<content_str>>])
      ELSE LET k == CHOOSE x \in found : TRUE
           IN  [tags EXCEPT ![k].values = Append(@, content_str)]

\* a store that keeps the last value only: lines 285-287 with an assignment
\* for the append
StoreTagLast(tags, tag, content_str) ==
  LET found == {k \in 1..Len(tags) : tags[k].name = tag}
  IN  IF found = {}
      THEN Append(tags, [name |-> tag, values |-> <<content_str>>])
      ELSE LET k == CHOOSE x \in found : TRUE
           IN  [tags EXCEPT ![k].values = <<content_str>>]

\* lines 285-287
StoreTag(tags, tag, content_str) ==
  LET found == {k \in 1..Len(tags) : tags[k].name = tag}
  IN  IF found = {}
      THEN Append(tags, [name |-> tag, values |-> <<content_str>>])
      ELSE LET k == CHOOSE x \in found : TRUE
           IN  [tags EXCEPT ![k].values = Append(@, content_str)]

\* a returns that the first tag sets for good: lines 258-261 under
\* `if result['returns'] is None`
SetReturnsFirst(returns, content_str) ==
  IF returns # <<>> THEN returns ELSE <<TypedText(content_str)>>

\* lines 258-261: result['returns'] is assigned a new record, whatever it
\* held
SetReturns(returns, content_str) == <<TypedText(content_str)>>

\* the call raises instead of returning
ProcessTagRaises(tag, content) ==
  LET p == ParseParam(ContentStr(tag, content))
  IN  IsParamTag(tag) /\ p.ok /\ UnpackFails(p.name)

_process_tag(tag, content, result) ==
  LET content_str == ContentStr(tag, content)
      p == ParseParam(content_str)
  IN  IF IsParamTag(tag)
      THEN IF p.ok
           THEN [result EXCEPT !.params = AddParam(@, p)]
           ELSE result
      ELSE IF IsReturnsTag(tag)
           THEN [result EXCEPT !.returns = SetReturns(@, content_str)]
      ELSE IF IsThrowsTag(tag)
           THEN [result EXCEPT !.throws = Append(@, TypedText(content_str))]
      ELSE IF tag = kw_example
           THEN [result EXCEPT !.examples = Append(@, content_str)]
      ELSE IF tag = kw_description
           THEN [result EXCEPT
                   !.description = AppendDescription(@, content_str)]
      ELSE [result EXCEPT !.tags = StoreTag(@, tag, content_str)]

(***************************************************************************)
(* parse_jsdoc, lines 7-89, as operators on its local state.               *)
(***************************************************************************)
\* lines 23-30
InitResult ==
  [description |-> <<>>, params |-> <<>>, returns |-> <<>>, throws |-> <<>>,
   examples |-> <<>>, tags |-> <<>>]

\* a loop in which an empty line closes the open tag: lines 51-71 with the
\* tag processed and current_tag reset on an empty line
LoopBodyBlankCloses(line, tag, content, res) ==
  LET tag_match == TagMatch(line)
  IN  IF tag_match.matched
      THEN [current_tag |-> tag_match.tag,
            current_content |-> <<tag_match.rest>>,
            result |-> IF tag # None THEN _process_tag(tag, content, res)
                       ELSE res]
      ELSE IF tag # None /\ line = <<>>
           THEN [current_tag |-> None, current_content |-> <<>>,
                 result |-> _process_tag(tag, content, res)]
      ELSE IF tag # None
           THEN [current_tag |-> tag,
                 current_content |-> Append(content, line),
                 result |-> res]
      ELSE [current_tag |-> tag, current_content |-> content,
            result |-> IF line # <<>>
                       THEN [res EXCEPT
                               !.description = AppendDescription(@, line)]
                       ELSE res]

\* lines 51-71: one turn of the loop over the lines
LoopBody(line, tag, content, res) ==
  LET tag_match == TagMatch(line)
  IN  IF tag_match.matched
      THEN [current_tag |-> tag_match.tag,
            current_content |-> <<tag_match.rest>>,
            result |-> IF tag # None THEN _process_tag(tag, content, res)
                       ELSE res]
      ELSE IF tag # None
           THEN [current_tag |-> tag,
                 current_content |-> Append(content, line),
                 result |-> res]
      ELSE [current_tag |-> tag, current_content |-> content,
            result |-> IF line # <<>>
                       THEN [res EXCEPT
                               !.description = AppendDescription(@, line)]
                       ELSE res]

\* the loop body raises: the call of _process_tag on line 56 does
LoopBodyRaises(line, tag, content) ==
  TagMatch(line).matched /\ tag # None /\ ProcessTagRaises(tag, content)

\* an end of input that leaves the open tag: lines 74-75 left out
FlushLastNone(tag, content, res) == res

\* lines 74-75
FlushLast(tag, content, res) ==
  IF tag # None THEN _process_tag(tag, content, res) ELSE res

\* a clean-up that forgets the throws list: lines 78-87 without line 83
KeptKeysThrows(res) ==
  {"description", "throws"} \cup
  {k \in {"params", "returns", "examples", "tags"} : res[k] # <<>>}

\* lines 78-87: the keys that stay in the result
KeptKeys(res) ==
  {"description"} \cup
  {k \in {"params", "returns", "throws", "examples", "tags"} : res[k] # <<>>}

CleanUp(res) ==
  [k \in KeptKeys(res) |-> IF k = "returns" THEN res[k][1] ELSE res[k]]

RECURSIVE ScanLines(_, _, _)
ScanLines(ls, k, st) ==
  IF k > Len(ls) THEN st
  ELSE ScanLines(ls, k + 1,
                 LoopBody(ls[k], st.current_tag, st.current_content,
                          st.result))

\* the record parse_jsdoc returns on docstring, where no call raises
parse_jsdoc(docstring) ==
  LET st == ScanLines(CleanLines(docstring), 1,
                      [current_tag |-> None, current_content |-> <<>>,
                       result |-> InitResult])
  IN  CleanUp(FlushLast(st.current_tag, st.current_content, st.result))

(***************************************************************************)
(* compose_jsdoc (jsdoc_parser/composer.py), the Recomposer of the         *)
(* specification: the comment text of a record.                            *)
(***************************************************************************)
\* "{type} " where the type is present, nothing where it is absent
TypePart(entry) ==
  IF "type" \in DOMAIN entry /\ entry.type # None
  THEN <<"{">> \o entry.type \o <<"}", " ">>
  ELSE <<>>

\* the name, bracket-wrapped with =default inside where optional or default
\* are set
NamePart(entry, full_name) ==
  IF "default" \in DOMAIN entry
  THEN <<"[">> \o full_name \o <<"=">> \o entry.default \o <<"]">>
  ELSE IF "optional" \in DOMAIN entry /\ entry.optional
       THEN <<"[">> \o full_name \o <<"]">>
  ELSE full_name

\* " - description" where the description is not empty
DashPart(entry) ==
  IF entry.description # <<>> THEN <<" ", "-", " ">> \o entry.description
  ELSE <<>>

ParamLine(entry, full_name) ==
  <<"@">> \o kw_param \o <<" ">> \o
  RStrip(TypePart(entry) \o NamePart(entry, full_name) \o DashPart(entry))

\* the lines of a parameter: its own, then one dotted line per property
ParamLines(entry) ==
  LET props == IF "properties" \in DOMAIN entry THEN entry.properties
               ELSE <<>>
  IN  <<ParamLine(entry, entry.name)>> \o
      [k \in 1..Len(props) |->
         ParamLine(props[k], entry.name \o <<".">> \o props[k].name)]

\* a returns or throws line
TypedLine(kw, entry) ==
  <<"@">> \o kw \o
  (IF entry.type # None THEN <<" ", "{">> \o entry.type \o <<"}">> ELSE <<>>) \o
  (IF entry.description # <<>> THEN <<" ">> \o entry.description ELSE <<>>)

ExampleLines(example) ==
  <<(<<"@">> \o kw_example)>> \o Split(example, "\n")

TagLines(entry) ==
  [k \in 1..Len(entry.values) |->
     <<"@">> \o entry.name \o
     (IF entry.values[k] # <<>> THEN <<" ">> \o entry.values[k] ELSE <<>>)]

\* the concatenation of a sequence of sequences
RECURSIVE Flatten(_)
Flatten(seqs) ==
  IF seqs = <<>> THEN <<>> ELSE Head(seqs) \o Flatten(Tail(seqs))

Field(record, key) == IF key \in DOMAIN record THEN record[key] ELSE <<>>

ComposeLines(record) ==
  LET description == Field(record, "description")
      params == Field(record, "params")
      throws == Field(record, "throws")
      examples == Field(record, "examples")
      tags == Field(record, "tags")
  IN  (IF description # <<>> THEN Split(description, "\n") ELSE <<>>) \o
      Flatten([k \in 1..Len(params) |-> ParamLines(params[k])]) \o
      (IF "returns" \in DOMAIN record
       THEN <<TypedLine(kw_returns, record.returns)>> ELSE <<>>) \o
      [k \in 1..Len(throws) |-> TypedLine(kw_throws, throws[k])] \o
      Flatten([k \in 1..Len(examples) |-> ExampleLines(examples[k])]) \o
      Flatten([k \in 1..Len(tags) |-> TagLines(tags[k])])

\* "/**", one " * line" per line, " */"
Comment(ls) ==
  OpenMarker \o <<"\n">> \o
  Flatten([k \in 1..Len(ls) |-> RStrip(<<" ", "*", " ">> \o ls[k]) \o <<"\n">>]) \o
  <<" ">> \o CloseMarker

compose_jsdoc(record) == Comment(ComposeLines(record))

(***************************************************************************)
(* The state of one call of parse_jsdoc: its argument, its position (pc),  *)
(* and its locals.  pc is "start" before line 23, "scan" in the loop of    *)
(* lines 49-71 (i is the index of the next line), "cleanup" before line    *)
(* 77, "done" after the return and "raised" after an exception.  returned  *)
(* holds the records the calls made so far have returned, in order.        *)
(***************************************************************************)
VARIABLES docstring, pc, lines, i, current_tag, current_content, result,
          returned, other

vars ==
  <<docstring, pc, lines, i, current_tag, current_content, result, returned,
    other>>

\* other is a second call of parse_jsdoc, by another thread: its argument and
\* its local variables, or NoCall where there is no such call
NoCall ==
  [docstring |-> <<>>, pc |-> "none", lines |-> <<>>, i |-> 1,
   current_tag |-> None, current_content |-> <<>>, result |-> InitResult]

\* a dictionary that calls share, held stays the result of the next call
\* while the call that holds it is still at work on it: lines 23-30 with
\* result a module-level dictionary
AllocateShared(held) ==
  IF DOMAIN held = DOMAIN InitResult THEN held ELSE InitResult

\* lines 23-30: result is a new dictionary of this call, whatever dictionary
\* held another call works on
Allocate(held) == InitResult

\* lines 23-47
Prepare ==
  /\ pc = "start"
  /\ lines' = CleanLines(docstring)
  /\ i' = 1
  /\ current_tag' = None
  /\ current_content' = <<>>
  /\ result' = Allocate(other.result)
  /\ pc' = "scan"
  /\ UNCHANGED <<docstring, returned, other>>

\* lines 49-71, one line of the loop
ScanLine ==
  /\ pc = "scan"
  /\ i <= Len(lines)
  /\ IF LoopBodyRaises(lines[i], current_tag, current_content)
     THEN /\ pc' = "raised"
          /\ UNCHANGED <<i, current_tag, current_content, result>>
     ELSE LET st == LoopBody(lines[i], current_tag, current_content, result)
          IN  /\ current_tag' = st.current_tag
              /\ current_content' = st.current_content
              /\ result' = st.result
              /\ i' = i + 1
              /\ pc' = "scan"
  /\ UNCHANGED <<docstring, lines, returned, other>>

\* lines 73-75, after the last line
Flush ==
  /\ pc = "scan"
  /\ i > Len(lines)
  /\ IF current_tag # None /\ ProcessTagRaises(current_tag, current_content)
     THEN /\ pc' = "raised"
          /\ UNCHANGED result
     ELSE /\ result' = FlushLast(current_tag, current_content, result)
          /\ pc' = "cleanup"
  /\ UNCHANGED <<docstring, lines, i, current_tag, current_content, returned,
                 other>>

\* lines 77-89
Return ==
  /\ pc = "cleanup"
  /\ result' = CleanUp(result)
  /\ returned' = Append(returned, CleanUp(result))
  /\ pc' = "done"
  /\ UNCHANGED <<docstring, lines, i, current_tag, current_content, other>>

\* the caller composes the record the first call returned and parses the
\* composed text: a second call of parse_jsdoc
Recompose ==
  /\ pc = "done"
  /\ Len(returned) = 1
  /\ docstring' = compose_jsdoc(returned[1])
  /\ pc' = "start"
  /\ lines' = <<>>
  /\ i' = 1
  /\ current_tag' = None
  /\ current_content' = <<>>
  /\ result' = InitResult
  /\ UNCHANGED <<returned, other>>

Next == Prepare \/ ScanLine \/ Flush \/ Return

\* one step of the call with local state s, held the dictionary the thread
\* beside it works on: lines 23-47, 49-71, 73-75 and 77-89 as above
StepCall(s, held) ==
  IF s.pc = "start"
  THEN [s EXCEPT !.lines = CleanLines(s.docstring), !.i = 1,
                 !.current_tag = None, !.current_content = <<>>,
                 !.result = Allocate(held), !.pc = "scan"]
  ELSE IF s.pc = "scan" /\ s.i <= Len(s.lines)
  THEN IF LoopBodyRaises(s.lines[s.i], s.current_tag, s.current_content)
       THEN [s EXCEPT !.pc = "raised"]
       ELSE LET st == LoopBody(s.lines[s.i], s.current_tag,
                               s.current_content, s.result)
            IN  [s EXCEPT !.current_tag = st.current_tag,
                          !.current_content = st.current_content,
                          !.result = st.result, !.i = s.i + 1]
  ELSE IF s.pc = "scan"
  THEN IF s.current_tag # None
          /\ ProcessTagRaises(s.current_tag, s.current_content)
       THEN [s EXCEPT !.pc = "raised"]
       ELSE [s EXCEPT !.result = FlushLast(s.current_tag, s.current_content,
                                           s.result),
                      !.pc = "cleanup"]
  ELSE [s EXCEPT !.result = CleanUp(s.result), !.pc = "done"]

\* a step of the second call, between two steps of the first
OtherStep ==
  /\ other.pc \in {"start", "scan", "cleanup"}
  /\ other' = StepCall(other, result)
  /\ UNCHANGED <<docstring, pc, lines, i, current_tag, current_content,
                 result, returned>>

NextTwo == Next \/ OtherStep

NextRoundTrip == Next \/ Recompose

StartOn(inputs) ==
  /\ docstring \in inputs
  /\ pc = "start"
  /\ lines = <<>>
  /\ i = 1
  /\ current_tag = None
  /\ current_content = <<>>
  /\ result = InitResult
  /\ returned = <<>>
  /\ other = NoCall

(***************************************************************************)
(* Inputs.  A comment is built from lines as the tests of the repository   *)
(* write them: "/**", one " * line" per line, " */".                       *)
(***************************************************************************)
SeqsUpTo(S, n) == UNION {[1..k -> S] : k \in 0..n}

RECURSIVE DocBody(_)
DocBody(ls) ==
  IF ls = <<>> THEN <<>>
  ELSE <<" ", "*", " ">> \o Head(ls) \o <<"\n">> \o DocBody(Tail(ls))

Doc(ls) == <<"/", "*", "*", "\n">> \o DocBody(ls) \o <<" ", "*", "/">>

\* the longest comment of Inputs, in lines
MaxLines == 3

LinePool ==
   \* a
  { <<"a">>,
   \* (empty)
    <<>>,
   \* x y
    <<"x", " ", "y">>,
   \* @param {T} a - d
    <<"@", "p", "a", "r", "a", "m", " ", "{", "T", "}", " ", "a", " ", "-", " ", "d">>,
   \* @param a d
    <<"@", "p", "a", "r", "a", "m", " ", "a", " ", "d">>,
   \* @param {T} [a=1] - d
    <<"@", "p", "a", "r", "a", "m", " ", "{", "T", "}", " ", "[", "a", "=", "1", "]", " ", "-", " ", "d">>,
   \* @param {T} a.b
    <<"@", "p", "a", "r", "a", "m", " ", "{", "T", "}", " ", "a", ".", "b">>,
   \* @arg {T} 0 - d
    <<"@", "a", "r", "g", " ", "{", "T", "}", " ", "0", " ", "-", " ", "d">>,
   \* @param a.b.c d
    <<"@", "p", "a", "r", "a", "m", " ", "a", ".", "b", ".", "c", " ", "d">>,
   \* @param {T} [a] d
    <<"@", "p", "a", "r", "a", "m", " ", "{", "T", "}", " ", "[", "a", "]", " ", "d">>,
   \* @returns {T} d
    <<"@", "r", "e", "t", "u", "r", "n", "s", " ", "{", "T", "}", " ", "d">>,
   \* @return d
    <<"@", "r", "e", "t", "u", "r", "n", " ", "d">>,
   \* @returns {T
    <<"@", "r", "e", "t", "u", "r", "n", "s", " ", "{", "T">>,
   \* @throws {E} d
    <<"@", "t", "h", "r", "o", "w", "s", " ", "{", "E", "}", " ", "d">>,
   \* @exception
    <<"@", "e", "x", "c", "e", "p", "t", "i", "o", "n">>,
   \* @example
    <<"@", "e", "x", "a", "m", "p", "l", "e">>,
   \* @description d
    <<"@", "d", "e", "s", "c", "r", "i", "p", "t", "i", "o", "n", " ", "d">>,
   \* @description
    <<"@", "d", "e", "s", "c", "r", "i", "p", "t", "i", "o", "n">>,
   \* @see r
    <<"@", "s", "e", "e", " ", "r">>,
   \* @Param a
    <<"@", "P", "a", "r", "a", "m", " ", "a">>}

\* comments in other shapes: empty, markers only, one line, no markers,
\* no space after the asterisks, blank lines
SpecialDocs ==
   \* (empty)
  { <<>>,
   \* /**/
    <<"/", "*", "*", "/">>,
   \* /** a */
    <<"/", "*", "*", " ", "a", " ", "*", "/">>,
   \* a
    <<"a">>,
   \* @see r\nx
    <<"@", "s", "e", "e", " ", "r", "\n", "x">>,
   \* /**\n*a\n*@param {T} a - d\n*/
    <<"/", "*", "*", "\n", "*", "a", "\n", "*", "@", "p", "a", "r", "a", "m", " ", "{", "T", "}", " ", "a", " ", "-", " ", "d", "\n", "*", "/">>,
   \*   /** a\n\n * @example\n *  x\n *\n * y */  
    <<" ", " ", "/", "*", "*", " ", "a", "\n", "\n", " ", "*", " ", "@", "e", "x", "a", "m", "p", "l", "e", "\n", " ", "*", " ", " ", "x", "\n", " ", "*", "\n", " ", "*", " ", "y", " ", "*", "/", " ", " ">>}

\* comments with word and whitespace characters beyond ASCII
WideDocs ==
   \* /** @café x */
  { <<"/", "*", "*", " ", "@", "c", "a", "f", "é", " ", "x", " ", "*", "/">>,
   \* /**\n * @see² a\n */
    <<"/", "*", "*", "\n", " ", "*", " ", "@", "s", "e", "e", "²", " ", "a", "\n", " ", "*", "/">>,
   \* @ª b
    <<"@", "ª", " ", "b">>,
   \* a<U+000B>
    <<"a", "">>,
   \* /**\n * a<U+001F>\n * @see x<U+00A0>\n */
    <<"/", "*", "*", "\n", " ", "*", " ", "a", "", "\n", " ", "*", " ", "@", "s", "e", "e", " ", "x", " ", "\n", " ", "*", "/">>,
   \* /**\n * @returns<U+000B>{T}<U+00A0>d\n<U+000B>* @throws {É} ça\n */
    <<"/", "*", "*", "\n", " ", "*", " ", "@", "r", "e", "t", "u", "r", "n", "s", "", "{", "T", "}", " ", "d", "\n", "", "*", " ", "@", "t", "h", "r", "o", "w", "s", " ", "{", "É", "}", " ", "ç", "a", "\n", " ", "*", "/">>}

Inputs ==
  {Doc(ls) : ls \in SeqsUpTo(LinePool, MaxLines)} \cup SpecialDocs \cup WideDocs

Init == StartOn(Inputs)

Spec == Init /\ [][Next]_vars

\* parse, compose, parse again
SpecRoundTrip == Init /\ [][NextRoundTrip]_vars

(***************************************************************************)
(* Inputs of the type extraction: a returns or throws tag followed by any  *)
(* text of braces, letters and spaces.                                     *)
(***************************************************************************)
\* the longest tag content of BraceInputs, in characters
MaxBraceLen == 6

BraceAlphabet == {"{", "}", "a", " "}

BraceInputs ==
  {<<"@">> \o kw \o <<" ">> \o c :
     kw \in {kw_returns, kw_throws},
     c \in SeqsUpTo(BraceAlphabet, MaxBraceLen)}

InitBraces == StartOn(BraceInputs)

SpecBraces == InitBraces /\ [][Next]_vars

(***************************************************************************)
(* Inputs of the parameter parsing: one param tag whose content is         *)
(* type, "[", name, default, "]", separator, description, each part from   *)
(* a few alternatives, well-formed or not; and comments of several tags.   *)
(***************************************************************************)
TypeParts ==
  {<<>>,
   <<"{", "T", "}", " ">>,
   <<"{", "}", " ">>}

OpenParts ==
  {<<>>,
   <<"[">>}

NameParts ==
  {<<"a">>,
   <<"a", ".", "b">>,
   <<"0">>,
   <<"$">>,
   <<>>}

DefaultParts ==
  {<<>>,
   <<"=", "1">>,
   <<"=">>,
   <<"=", "a", "-", "b">>,
   <<"=", "[", "1", ",", "2", "]">>}

CloseParts ==
  {<<>>,
   <<"]">>}

SepParts ==
  {<<>>,
   <<" ">>,
   <<" ", "-", " ">>}

DescParts ==
  {<<>>,
   <<"d">>,
   <<"s", "o", "m", "e", " ", "t", "e", "x", "t">>}

\* the comment of test_empty_tag_values
SpecialParamDocs ==
   \* /**\n * @param {} name - Name without type\n * @returns {} No type\n */
  { <<"/", "*", "*", "\n", " ", "*", " ", "@", "p", "a", "r", "a", "m", " ", "{", "}", " ", "n", "a", "m", "e", " ", "-", " ", "N", "a", "m", "e", " ", "w", "i", "t", "h", "o", "u", "t", " ", "t", "y", "p", "e", "\n", " ", "*", " ", "@", "r", "e", "t", "u", "r", "n", "s", " ", "{", "}", " ", "N", "o", " ", "t", "y", "p", "e", "\n", " ", "*", "/">>}

OneParamInputs ==
  {<<"@">> \o kw_param \o <<" ">> \o ty \o op \o nm \o df \o cl \o sp \o ds :
     ty \in TypeParts, op \in OpenParts, nm \in NameParts,
     df \in DefaultParts, cl \in CloseParts, sp \in SepParts,
     ds \in DescParts}

\* comments of several param tags, for the folding of dotted names
\* the longest of them, in tags
MaxParamTags == 3

NestPool ==
   \* @param {T} a
  { <<"@", "p", "a", "r", "a", "m", " ", "{", "T", "}", " ", "a">>,
   \* @param a d
    <<"@", "p", "a", "r", "a", "m", " ", "a", " ", "d">>,
   \* @param {T} a.b - d
    <<"@", "p", "a", "r", "a", "m", " ", "{", "T", "}", " ", "a", ".", "b", " ", "-", " ", "d">>,
   \* @param a.c
    <<"@", "p", "a", "r", "a", "m", " ", "a", ".", "c">>,
   \* @param {T} a.b.c
    <<"@", "p", "a", "r", "a", "m", " ", "{", "T", "}", " ", "a", ".", "b", ".", "c">>,
   \* @param {T} [a.d=1]
    <<"@", "p", "a", "r", "a", "m", " ", "{", "T", "}", " ", "[", "a", ".", "d", "=", "1", "]">>,
   \* @param {T} b
    <<"@", "p", "a", "r", "a", "m", " ", "{", "T", "}", " ", "b">>,
   \* @param {T} b.a
    <<"@", "p", "a", "r", "a", "m", " ", "{", "T", "}", " ", "b", ".", "a">>,
   \* @arg {T} 0 - d
    <<"@", "a", "r", "g", " ", "{", "T", "}", " ", "0", " ", "-", " ", "d">>,
   \* @see r
    <<"@", "s", "e", "e", " ", "r">>}

NestInputs == {Doc(ls) : ls \in SeqsUpTo(NestPool, MaxParamTags)}

\* parameter tags with word and whitespace characters beyond ASCII
WideParamDocs ==
   \* @param {T} né - d
  { <<"@", "p", "a", "r", "a", "m", " ", "{", "T", "}", " ", "n", "é", " ", "-", " ", "d">>,
   \* @param {T} [aß=1] - d
    <<"@", "p", "a", "r", "a", "m", " ", "{", "T", "}", " ", "[", "a", "ß", "=", "1", "]", " ", "-", " ", "d">>,
   \* @param né d
    <<"@", "p", "a", "r", "a", "m", " ", "n", "é", " ", "d">>,
   \* @param a²
    <<"@", "p", "a", "r", "a", "m", " ", "a", "²">>,
   \* @param {T} a<U+000B>- d
    <<"@", "p", "a", "r", "a", "m", " ", "{", "T", "}", " ", "a", "", "-", " ", "d">>,
   \* @param {T} [a]<U+00A0>-<U+000B>d
    <<"@", "p", "a", "r", "a", "m", " ", "{", "T", "}", " ", "[", "a", "]", " ", "-", "", "d">>,
   \* @param a<U+000B>d
    <<"@", "p", "a", "r", "a", "m", " ", "a", "", "d">>,
   \* @param {T} é
    <<"@", "p", "a", "r", "a", "m", " ", "{", "T", "}", " ", "é">>,
   \* @param ª d
    <<"@", "p", "a", "r", "a", "m", " ", "ª", " ", "d">>,
   \* /**\n * @param {T} a.é\n * @param {T} a\n */
    <<"/", "*", "*", "\n", " ", "*", " ", "@", "p", "a", "r", "a", "m", " ", "{", "T", "}", " ", "a", ".", "é", "\n", " ", "*", " ", "@", "p", "a", "r", "a", "m", " ", "{", "T", "}", " ", "a", "\n", " ", "*", "/">>}

ParamInputs ==
  OneParamInputs \cup NestInputs \cup SpecialParamDocs \cup WideParamDocs

InitParam == StartOn(ParamInputs)

SpecParam == InitParam /\ [][Next]_vars

(***************************************************************************)
(* Claims.  The definitions below read the comment independently of the    *)
(* loop of parse_jsdoc: the tags of the cleaned lines, each with the lines *)
(* up to the next tag line.                                                *)
(***************************************************************************)
Least(S) == CHOOSE x \in S : \A y \in S : x <= y

IsTagLine(line) == TagMatch(line).matched

\* the index of the last line of the tag that starts on line j
BlockEnd(ls, j) ==
  LET later == {k \in (j + 1)..Len(ls) : IsTagLine(ls[k])}
  IN  IF later = {} THEN Len(ls) ELSE Least(later) - 1

\* the tags of lines j.. in source order, each with its content lines
RECURSIVE Blocks(_, _)
Blocks(ls, j) ==
  IF j > Len(ls) THEN <<>>
  ELSE IF IsTagLine(ls[j])
       THEN <<[tag |-> TagMatch(ls[j]).tag,
               content |-> <<TagMatch(ls[j]).rest>> \o
                           Sub(ls, j + 1, BlockEnd(ls, j))]>> \o
            Blocks(ls, j + 1)
  ELSE Blocks(ls, j + 1)

BlockText(b) == ContentStr(b.tag, b.content)

IsKnownTag(tag) ==
  \/ IsParamTag(tag) \/ IsReturnsTag(tag) \/ IsThrowsTag(tag)
  \/ tag = kw_example \/ tag = kw_description

\* every field of record r is a field of record q, with the same value
SameFields(r, q) == \A k \in DOMAIN r : k \in DOMAIN q /\ q[k] = r[k]

\* C1: round-trip law.  For every record R that parse_jsdoc returns,
\* parse_jsdoc(compose_jsdoc(R)) equals R field by field for every field
\* present in R.
C1_RoundTrip == Len(returned) = 2 => SameFields(returned[1], returned[2])

\* the number of steps a call has left at most: a line of the docstring or
\* of lines per turn of the loop, then the flush and the clean-up
Rank ==
  CASE pc = "start" -> Len(docstring) + 4
    [] pc = "scan" -> Len(lines) - i + 3
    [] pc = "cleanup" -> 1
    [] OTHER -> 0

\* C2: parse_jsdoc is total: on every input string the call terminates and
\* returns a record, and never raises.  No state is one of an exception, and
\* every step brings the return nearer: the steps left are a natural number
\* that is zero only after the return.
C2_Total ==
  /\ [](pc # "raised" /\ Rank >= 0 /\ (Rank = 0 => pc = "done"))
  /\ [][Rank' < Rank]_vars

\* a call has returned on a comment whose type brace never closes
C2_Witness ==
  /\ pc = "done"
  /\ "returns" \in DOMAIN result
  /\ result.returns.type = None
  /\ StartsWith(result.returns.description, <<"{">>)

\* C3: shape of every returned record.  description is always present;
\* params, throws, examples and tags are present if and only if they are not
\* empty; returns is present if and only if a @returns or @return tag
\* occurred; a comment with no content parses to exactly {description: ""}.
C3_Shape ==
  pc = "done" =>
    LET B == Blocks(lines, 1)
        Occurs(Is(_)) == \E k \in 1..Len(B) : Is(B[k].tag)
        IsExample(tag) == tag = kw_example
        IsUnknown(tag) == ~IsKnownTag(tag)
    IN  /\ "description" \in DOMAIN result
        /\ DOMAIN result \subseteq
             {"description", "params", "returns", "throws", "examples", "tags"}
        /\ \A k \in {"params", "throws", "examples", "tags"} :
             k \in DOMAIN result => result[k] # <<>>
        /\ "params" \in DOMAIN result <=>
             \E k \in 1..Len(B) :
               IsParamTag(B[k].tag) /\ ParseParam(BlockText(B[k])).ok
        /\ "returns" \in DOMAIN result <=> Occurs(IsReturnsTag)
        /\ "throws" \in DOMAIN result <=> Occurs(IsThrowsTag)
        /\ "examples" \in DOMAIN result <=> Occurs(IsExample)
        /\ "tags" \in DOMAIN result <=> Occurs(IsUnknown)
        /\ (\A j \in 1..Len(lines) : lines[j] = <<>>) =>
             result = [description |-> <<>>]

\* a record with params and returns, its empty throws, examples and tags
\* deleted
C3_Witness ==
  pc = "done" /\ DOMAIN result = {"description", "params", "returns"}

\* the brace depth after the first j characters of s
Depth(s, j) ==
  Cardinality({k \in 1..j : s[k] = "{"}) -
  Cardinality({k \in 1..j : s[k] = "}"})

\* the indices at which the depth is back to zero
Closers(s) == {j \in 1..Len(s) : Depth(s, j) = 0}

\* the text strictly between the first "{" and its matching "}", and the
\* trimmed text after that "}"
Balanced(s) ==
  LET j == Least(Closers(s))
  IN  [type |-> Sub(s, 2, j - 1), rest |-> Strip(From(s, j + 1))]

HasBalancedType(s) == StartsWith(s, <<"{">>) /\ Closers(s) # {}

\* the entry of the only param tag of a comment: the top-level parameter, or
\* the property folded into its parent
OnlyEntry(res) ==
  LET e == res.params[1]
  IN  IF "properties" \in DOMAIN e THEN e.properties[1] ELSE e

\* C4: type-brace balance.  Whenever a tag's content starts with "{" and a
\* matching closing brace exists, the extracted type is the text strictly
\* between the first "{" and the "}" that returns the depth to zero, nested
\* pairs staying inside the type, and the remainder is the trimmed text
\* after that closing brace.
C4_BraceBalance ==
  /\ current_tag # None =>
       LET cs == ContentStr(current_tag, current_content)
       IN  HasBalancedType(cs) =>
             _extract_type_from_braces(cs) =
               <<Balanced(cs).type, Balanced(cs).rest>>
  /\ pc = "done" =>
       LET B == Blocks(lines, 1)
           cs == BlockText(B[1])
       IN  (Len(B) = 1 /\ HasBalancedType(cs)) =>
             /\ IsReturnsTag(B[1].tag) =>
                  result.returns = [type |-> Balanced(cs).type,
                                    description |-> Balanced(cs).rest]
             /\ IsThrowsTag(B[1].tag) =>
                  result.throws = <<[type |-> Balanced(cs).type,
                                     description |-> Balanced(cs).rest]>>
             /\ (IsParamTag(B[1].tag) /\ "params" \in DOMAIN result) =>
                  OnlyEntry(result).type = Balanced(cs).type

\* a type of three nested levels was extracted, with a remainder
C4_Witness ==
  /\ pc = "done"
  /\ "returns" \in DOMAIN result
  /\ result.returns.type = <<"{", "{", "}", "}">>

\* C5: a @param or @returns tag written with an empty brace pair parses with
\* type absent (None), not with the empty string as type.
C5_EmptyBraces ==
  pc = "done" =>
    LET B == Blocks(lines, 1)
        TypeAbsent(e) ==
          IF "properties" \in DOMAIN e
          THEN \A j \in 1..Len(e.properties) : e.properties[j].type = None
          ELSE e.type = None
    IN  (B # <<>> /\ \A k \in 1..Len(B) :
                       StartsWith(BlockText(B[k]), <<"{", "}">>)) =>
          /\ "returns" \in DOMAIN result => result.returns.type = None
          /\ "params" \in DOMAIN result =>
               \A j \in 1..Len(result.params) : TypeAbsent(result.params[j])

\* a parameter name: a letter, "_" or "$", then letters, digits, "_", "$", "."
IsName(s) ==
  /\ s # <<>>
  /\ s[1] \in NameStart
  /\ \A k \in 2..Len(s) : s[k] \in NameChar

\* the text starts with a bracket-wrapped name: "[name]" or "[name=default]"
\* with a default of at least one character
BracketWrapped(s) ==
  /\ StartsWith(s, <<"[">>)
  /\ \E j \in 2..Len(s) :
       /\ s[j] = "]"
       /\ \A k \in 2..(j - 1) : s[k] # "]"
       /\ LET inner == Sub(s, 2, j - 1)
              eqs == {k \in 1..Len(inner) : inner[k] = "="}
          IN  IF eqs = {} THEN IsName(inner)
              ELSE /\ IsName(Sub(inner, 1, Least(eqs) - 1))
                   /\ Least(eqs) < Len(inner)

\* C6: optionality inference.  Every entry of a typed @param tag carries
\* optional = true exactly when a default value was supplied or the name was
\* bracket-wrapped, carries default exactly when a default value was
\* supplied, and otherwise has neither key; optional is never stored as false
\* and default never appears without optional.
C6_Optionality ==
  pc = "done" =>
    LET B == Blocks(lines, 1)
        ex == _extract_type_from_braces(BlockText(B[1]))
        pm == ParamMatch(ex[2])
        supplied == pm.matched /\ pm.default # None
        e == OnlyEntry(result)
    IN  (Len(B) = 1 /\ IsParamTag(B[1].tag) /\ ex[1] # None
           /\ "params" \in DOMAIN result) =>
          /\ "optional" \in DOMAIN e <=> (supplied \/ BracketWrapped(ex[2]))
          /\ "optional" \in DOMAIN e => e.optional = TRUE
          /\ "default" \in DOMAIN e <=> supplied
          /\ "default" \in DOMAIN e =>
               e.default = pm.default /\ "optional" \in DOMAIN e
          /\ DOMAIN e \subseteq
               {"name", "type", "description", "default", "optional"}

\* a call has returned on a single typed @param tag with a default value
C6_Witness ==
  /\ pc = "done"
  /\ Len(Blocks(lines, 1)) = 1
  /\ "params" \in DOMAIN result
  /\ "default" \in DOMAIN OnlyEntry(result)
  /\ OnlyEntry(result).optional = TRUE
  /\ BracketWrapped(_extract_type_from_braces(
                      BlockText(Blocks(lines, 1)[1]))[2])

some_text == <<"s", "o", "m", "e", " ", "t", "e", "x", "t">>

\* C7: the dash before a typed parameter's description is optional also for
\* bracket-wrapped names: "@param {T} [name] some text" and
\* "@param {T} [name=d] some text" each produce a parameter named name with
\* optional = true and description "some text".
C7_BracketNoDash ==
  pc = "done" =>
    LET B == Blocks(lines, 1)
        ex == _extract_type_from_braces(BlockText(B[1]))
        rem == ex[2]
        close == Least({j \in 1..Len(rem) : rem[j] = "]"})
    IN  (Len(B) = 1 /\ IsParamTag(B[1].tag) /\ ex[1] # None
           /\ BracketWrapped(rem)
           /\ From(rem, close + 1) = <<" ">> \o some_text) =>
          /\ "params" \in DOMAIN result
          /\ IsName(OnlyEntry(result).name)
          /\ "optional" \in DOMAIN OnlyEntry(result)
          /\ OnlyEntry(result).optional = TRUE
          /\ OnlyEntry(result).description = some_text

\* the content of a parameter tag has no identifier where the name stands:
\* after the type, neither a name start nor "[" and a name start; without a
\* type, no name start
NoName(cs) ==
  LET ex == _extract_type_from_braces(cs)
      rem == ex[2]
  IN  IF ex[1] # None
      THEN ~ \/ rem # <<>> /\ rem[1] \in NameStart
             \/ Len(rem) >= 2 /\ rem[1] = "[" /\ rem[2] \in NameStart
      ELSE cs = <<>> \/ cs[1] \notin NameStart

\* the parameter tag is one the code drops
Discarded(tag, content) ==
  IsParamTag(tag) /\ ~ParseParam(ContentStr(tag, content)).ok

\* the tags of parameters among the blocks of the comment
ParamBlocks(ls) == SelectSeq(Blocks(ls, 1), LAMBDA b : IsParamTag(b.tag))

\* C8: discard rule.  A @param/@arg/@argument tag whose name cannot be
\* extracted as an identifier is dropped, and the step that processes a
\* dropped tag leaves the record as it was and raises nothing; nothing is
\* ever stored under tags for a parameter tag, and when every parameter tag
\* of the comment is dropped the returned record has no params key.
C8_Discard ==
  /\ [](pc \in {"scan", "cleanup", "done"} =>
          LET P == ParamBlocks(lines)
          IN  /\ \A k \in 1..Len(P) :
                   NoName(BlockText(P[k])) =>
                     Discarded(P[k].tag, P[k].content)
              /\ "tags" \in DOMAIN result =>
                   \A k \in 1..Len(result.tags) :
                     ~IsParamTag(result.tags[k].name)
              /\ (pc = "done"
                    /\ \A k \in 1..Len(P) :
                         Discarded(P[k].tag, P[k].content)) =>
                   "params" \notin DOMAIN result)
  /\ [][(/\ pc = "scan"
         /\ current_tag # None
         /\ Discarded(current_tag, current_content)
         /\ (i > Len(lines) \/ IsTagLine(lines[i]))) =>
          (result' = result /\ pc' # "raised")]_vars

\* a call has returned on a comment whose only parameter tag is digit-led,
\* next to a tag that is kept
C8_Witness ==
  /\ pc = "done"
  /\ Len(ParamBlocks(lines)) = 1
  /\ NoName(BlockText(ParamBlocks(lines)[1]))
  /\ StartsWith(BlockText(ParamBlocks(lines)[1]), <<"{", "T", "}", " ", "0">>)
  /\ DOMAIN result = {"description", "tags"}

\* the parameter names of the comment in source order, of the tags kept
DeclaredNames(ls) ==
  LET kept == SelectSeq(ParamBlocks(ls),
                        LAMBDA b : ~Discarded(b.tag, b.content))
  IN  [k \in 1..Len(kept) |-> ParseParam(BlockText(kept[k])).name]

FirstDot(n) == Least({k \in 1..Len(n) : n[k] = "."})

PrefixOf(n) == Sub(n, 1, FirstDot(n) - 1)

SuffixOf(n) == From(n, FirstDot(n) + 1)

Dots(n) == Cardinality({k \in 1..Len(n) : n[k] = "."})

\* the places among names of the children of P
ChildrenOf(names, P) ==
  {k \in 1..Len(names) : Dots(names[k]) >= 1 /\ PrefixOf(names[k]) = P}

RECURSIVE InOrder(_, _)
\* the members of the set S of places of names, ascending, as their suffixes
InOrder(names, S) ==
  IF S = {} THEN <<>>
  ELSE <<SuffixOf(names[Least(S)])>> \o InOrder(names, S \ {Least(S)})

\* C9: nested folding.  When a parameter P is declared and later parameter
\* tags name P.x1, P.x2, ..., the result holds exactly one top-level
\* parameter named P, whose properties list has one entry per child, named
\* x1, x2, ... in source order; no child is a top-level parameter.
C9_Folding ==
  pc = "done" =>
    LET names == DeclaredNames(lines)
    IN  \A d \in 1..Len(names) :
          LET P == names[d]
              ch == ChildrenOf(names, P)
          IN  (/\ Dots(P) = 0
               /\ ch # {}
               /\ \A c \in ch : d < c
               /\ \A k \in 1..Len(names) : names[k] = P => k = d) =>
                LET tops == {k \in 1..Len(result.params) :
                               result.params[k].name = P}
                    top == result.params[Least(tops)]
                IN  /\ Cardinality(tops) = 1
                    /\ "properties" \in DOMAIN top
                    /\ [k \in 1..Len(top.properties) |->
                          top.properties[k].name] = InOrder(names, ch)
                    /\ \A k \in 1..Len(result.params) :
                         \A c \in ch : result.params[k].name # names[c]

\* a call has returned on a declared parameter with two children after it
C9_Witness ==
  /\ pc = "done"
  /\ DeclaredNames(lines) = <<<<"a">>, <<"a", ".", "b">>, <<"a", ".", "c">>>>
  /\ Len(result.params) = 1
  /\ result.params[1].type = <<"T">>
  /\ Len(result.params[1].properties) = 2

\* C10: only one level of folding.  A parameter name with two or more dots
\* is stored as a property of the top-level parameter named by the text
\* before the first dot, under the whole text after the first dot; no
\* top-level name has a dot and no property has a properties list.
C10_OneLevel ==
  (pc = "done" /\ "params" \in DOMAIN result) =>
    LET names == DeclaredNames(lines)
    IN  /\ \A k \in 1..Len(result.params) :
             /\ Dots(result.params[k].name) = 0
             /\ "properties" \in DOMAIN result.params[k] =>
                  \A q \in 1..Len(result.params[k].properties) :
                    "properties" \notin
                      DOMAIN result.params[k].properties[q]
        /\ \A d \in 1..Len(names) :
             Dots(names[d]) >= 2 =>
               \E k \in 1..Len(result.params) :
                 /\ result.params[k].name = PrefixOf(names[d])
                 /\ "properties" \in DOMAIN result.params[k]
                 /\ \E q \in 1..Len(result.params[k].properties) :
                      result.params[k].properties[q].name =
                        SuffixOf(names[d])

\* a call has returned on a name with two dots: a property named "b.c"
C10_Witness ==
  /\ pc = "done"
  /\ "params" \in DOMAIN result
  /\ \E k \in 1..Len(result.params) :
       /\ result.params[k].name = <<"a">>
       /\ "properties" \in DOMAIN result.params[k]
       /\ \E q \in 1..Len(result.params[k].properties) :
            result.params[k].properties[q].name = <<"b", ".", "c">>

\* the step at hand hands the tag collected so far to _process_tag: a new
\* tag line follows it, or the lines are at their end
ProcessesTag ==
  /\ pc = "scan"
  /\ current_tag # None
  /\ (i > Len(lines) \/ IsTagLine(lines[i]))

Object == <<"O", "b", "j", "e", "c", "t">>

\* C11: synthetic parent.  When a dotted child parameter is processed and no
\* top-level parameter with exactly its parent name exists yet, a parent
\* entry with type "Object" and empty description is appended to params at
\* that moment, after the entries already there, and the child is its first
\* and only property.
C11_SyntheticParent ==
  [][LET p == ParseParam(ContentStr(current_tag, current_content))
         n == Len(result.params)
     IN  (/\ ProcessesTag
          /\ IsParamTag(current_tag)
          /\ p.ok
          /\ Dots(p.name) >= 1
          /\ \A k \in 1..n : result.params[k].name # PrefixOf(p.name)) =>
           /\ Len(result'.params) = n + 1
           /\ SubSeq(result'.params, 1, n) = result.params
           /\ DOMAIN result'.params[n + 1] =
                {"name", "type", "description", "properties"}
           /\ result'.params[n + 1].name = PrefixOf(p.name)
           /\ result'.params[n + 1].type = Object
           /\ result'.params[n + 1].description = <<>>
           /\ Len(result'.params[n + 1].properties) = 1
           /\ result'.params[n + 1].properties[1].name = SuffixOf(p.name)
           /\ result'.params[n + 1].properties[1].type = p.type
           /\ result'.params[n + 1].properties[1].description = p.desc]_vars

\* a call has returned on a child that came second, with no parent declared:
\* the parent made for it is the second entry
C11_Witness ==
  /\ pc = "done"
  /\ DeclaredNames(lines) = <<<<"b">>, <<"a", ".", "b">>>>
  /\ Len(result.params) = 2
  /\ result.params[2].name = <<"a">>
  /\ result.params[2].type = Object
  /\ result.params[2].properties[1].name = <<"b">>

(***************************************************************************)
(* Comments of text lines and of the tags that take no parameter.          *)
(***************************************************************************)
\* the longest comment of TagInputs, in lines
MaxTagLines == 3

TagPool ==
   \* a
  { <<"a">>,
   \* (empty)
    <<>>,
   \* x y
    <<"x", " ", "y">>,
   \* @returns {T} d
    <<"@", "r", "e", "t", "u", "r", "n", "s", " ", "{", "T", "}", " ", "d">>,
   \* @return d
    <<"@", "r", "e", "t", "u", "r", "n", " ", "d">>,
   \* @throws {E} d
    <<"@", "t", "h", "r", "o", "w", "s", " ", "{", "E", "}", " ", "d">>,
   \* @exception
    <<"@", "e", "x", "c", "e", "p", "t", "i", "o", "n">>,
   \* @example
    <<"@", "e", "x", "a", "m", "p", "l", "e">>,
   \* @see r
    <<"@", "s", "e", "e", " ", "r">>,
   \* @description d
    <<"@", "d", "e", "s", "c", "r", "i", "p", "t", "i", "o", "n", " ", "d">>}

TagInputs ==
  {Doc(ls) : ls \in SeqsUpTo(TagPool, MaxTagLines)} \cup SpecialDocs \cup
  WideDocs

InitTags == StartOn(TagInputs)

SpecTags == InitTags /\ [][Next]_vars

\* the joined contents of the blocks of ls whose tag is in the set T of tag
\* names, in source order
ContentsOf(ls, T) ==
  LET sel == SelectSeq(Blocks(ls, 1), LAMBDA b : b.tag \in T)
  IN  [k \in 1..Len(sel) |-> BlockText(sel[k])]

\* the tag names of the blocks of ls that have no branch of their own
UnknownTags(ls) ==
  {Blocks(ls, 1)[k].tag : k \in 1..Len(Blocks(ls, 1))} \
    {t \in {Blocks(ls, 1)[k].tag : k \in 1..Len(Blocks(ls, 1))} :
       IsKnownTag(t)}

\* C12: source-order multiplicity.  Every @throws/@exception occurrence
\* yields exactly one entry of throws, every @example occurrence one entry
\* of examples, and every occurrence of an unrecognised tag T one value in
\* tags[T]; each of these sequences is in the order of the occurrences in
\* the comment, with none lost or duplicated.
C12_SourceOrder ==
  pc = "done" =>
    LET th == ContentsOf(lines, {kw_throws, kw_exception})
        ex == ContentsOf(lines, {kw_example})
        tags == Field(result, "tags")
    IN  /\ Len(Field(result, "throws")) = Len(th)
        /\ \A k \in 1..Len(th) : result.throws[k] = TypedText(th[k])
        /\ Field(result, "examples") = ex
        /\ {tags[k].name : k \in 1..Len(tags)} = UnknownTags(lines)
        /\ \A k, j \in 1..Len(tags) : tags[k].name = tags[j].name => k = j
        /\ \A k \in 1..Len(tags) :
             tags[k].values = ContentsOf(lines, {tags[k].name})

\* a call has returned on two throws tags that differ and a tag that occurs
\* once
C12_Witness ==
  /\ pc = "done"
  /\ DOMAIN result = {"description", "throws", "tags"}
  /\ Len(result.throws) = 2
  /\ result.throws[1].type = <<"E">>
  /\ result.throws[2].type = None

\* C13: returns is singular, last wins.  When several @returns/@return tags
\* occur, the record's returns holds the type and description of the last
\* one in source order only, with nothing carried over from earlier ones.
C13_LastReturns ==
  pc = "done" =>
    LET rt == ContentsOf(lines, {kw_returns, kw_return})
        last == _extract_type_from_braces(rt[Len(rt)])
    IN  /\ "returns" \in DOMAIN result <=> Len(rt) >= 1
        /\ Len(rt) >= 1 =>
             /\ DOMAIN result.returns = {"type", "description"}
             /\ result.returns.type = last[1]
             /\ result.returns.description =
                  IF last[1] # None THEN last[2] ELSE rt[Len(rt)]

\* a call has returned on a typed returns tag followed by an untyped one
C13_Witness ==
  /\ pc = "done"
  /\ Len(ContentsOf(lines, {kw_returns, kw_return})) = 2
  /\ _extract_type_from_braces(
       ContentsOf(lines, {kw_returns, kw_return})[1])[1] = <<"T">>
  /\ result.returns.type = None
  /\ result.returns.description = <<"d">>

(***************************************************************************)
(* Comments of tags, their aliases and tags with no branch of their own.   *)
(***************************************************************************)
\* the longest comment of AliasInputs, in lines
MaxAliasLines == 3

AliasPool ==
   \* a
  { <<"a">>,
   \* @arg {T} a - d
    <<"@", "a", "r", "g", " ", "{", "T", "}", " ", "a", " ", "-", " ", "d">>,
   \* @argument a.b d
    <<"@", "a", "r", "g", "u", "m", "e", "n", "t", " ", "a", ".", "b", " ", "d">>,
   \* @param {T} a
    <<"@", "p", "a", "r", "a", "m", " ", "{", "T", "}", " ", "a">>,
   \* @return {T} d
    <<"@", "r", "e", "t", "u", "r", "n", " ", "{", "T", "}", " ", "d">>,
   \* @returns d
    <<"@", "r", "e", "t", "u", "r", "n", "s", " ", "d">>,
   \* @exception {E} d
    <<"@", "e", "x", "c", "e", "p", "t", "i", "o", "n", " ", "{", "E", "}", " ", "d">>,
   \* @throws d
    <<"@", "t", "h", "r", "o", "w", "s", " ", "d">>,
   \* @args x
    <<"@", "a", "r", "g", "s", " ", "x">>,
   \* @async
    <<"@", "a", "s", "y", "n", "c">>}

AliasSpecialDocs ==
   \* /** @return {T} d */
  { <<"/", "*", "*", " ", "@", "r", "e", "t", "u", "r", "n", " ", "{", "T", "}", " ", "d", " ", "*", "/">>,
   \* @arg a d
    <<"@", "a", "r", "g", " ", "a", " ", "d">>,
   \* /**\n@argument {T} [a=1]\n   *@exception\n*/
    <<"/", "*", "*", "\n", "@", "a", "r", "g", "u", "m", "e", "n", "t", " ", "{", "T", "}", " ", "[", "a", "=", "1", "]", "\n", " ", " ", " ", "*", "@", "e", "x", "c", "e", "p", "t", "i", "o", "n", "\n", "*", "/">>}

AliasInputs ==
  {Doc(ls) : ls \in SeqsUpTo(AliasPool, MaxAliasLines)} \cup AliasSpecialDocs

InitAlias == StartOn(AliasInputs)

SpecAlias == InitAlias /\ [][Next]_vars

\* the name a tag name stands for: the tag's own where it is no alias
Canonical(tag) ==
  IF tag = kw_arg \/ tag = kw_argument THEN kw_param
  ELSE IF tag = kw_return THEN kw_returns
  ELSE IF tag = kw_exception THEN kw_throws
  ELSE tag

\* the line of the comment with the name of its tag, where it is one,
\* replaced by the name it stands for: the @ of a tag line is the first @ of
\* the line, what cleaning removes before it having none
CanonLine(line) ==
  LET m == TagMatch(CleanLine(line))
      at == Least({k \in 1..Len(line) : line[k] = "@"})
  IN  IF m.matched
      THEN Sub(line, 1, at) \o Canonical(m.tag) \o
           From(line, at + 1 + Len(m.tag))
      ELSE line

\* the comment with every alias replaced, between its markers
CanonDoc(d) ==
  LET raw == Split(StripMarkers(d), "\n")
  IN  OpenMarker \o Join([k \in 1..Len(raw) |-> CanonLine(raw[k])], <<"\n">>)
      \o CloseMarker

\* C14: alias folding.  Replacing the occurrences of @arg or @argument by
\* @param, of @return by @returns and of @exception by @throws in a comment
\* yields an identical record.
C14_AliasFolding ==
  pc = "done" => result = parse_jsdoc(CanonDoc(docstring))

\* a call has returned on a comment with an alias of each of the three tags
C14_Witness ==
  /\ pc = "done"
  /\ DOMAIN result = {"description", "params", "returns", "throws"}
  /\ {kw_argument, kw_return, kw_exception} \subseteq
       {TagMatch(lines[k]).tag : k \in 1..Len(lines)}
  /\ CanonDoc(docstring) # OpenMarker \o StripMarkers(docstring) \o CloseMarker

\* C15: unknown tags are never rejected.  Every tag whose name is not one of
\* param, argument, arg, returns, return, throws, exception, example,
\* description is stored under tags[name] with its joined content, the empty
\* string when the tag has no content; none of those nine names is ever a
\* key of tags.
C15_UnknownTags ==
  LET tags == Field(result, "tags")
      B == Blocks(lines, 1)
      known == {kw_param, kw_argument, kw_arg, kw_returns, kw_return,
                kw_throws, kw_exception, kw_example, kw_description}
  IN  /\ \A k \in 1..Len(tags) : tags[k].name \notin known
      /\ pc = "done" =>
           \A b \in 1..Len(B) :
             B[b].tag \notin known =>
               \E k \in 1..Len(tags) :
                 /\ tags[k].name = B[b].tag
                 /\ \E j \in 1..Len(tags[k].values) :
                      tags[k].values[j] = BlockText(B[b])

\* a call has returned on a tag with no content and a tag whose name is a
\* known name and a letter: both are under tags
C15_Witness ==
  /\ pc = "done"
  /\ DOMAIN result = {"description", "params", "tags"}
  /\ Len(result.tags) = 2
  /\ result.tags[1] = [name |-> <<"a", "s", "y", "n", "c">>,
                       values |-> <<<<>>>>]
  /\ result.tags[2] = [name |-> <<"a", "r", "g", "s">>,
                       values |-> <<<<"x">>>>]

\* the lines of c without the empty ones
NonEmptyLines(c) == SelectSeq(c, LAMBDA l : l # <<>>)

\* the lines of c from its first non-empty line to its last
TrimBlank(c) ==
  LET full == {k \in 1..Len(c) : c[k] # <<>>}
  IN  IF full = {} THEN <<>>
      ELSE SubSeq(c, Least(full), CHOOSE k \in full : \A j \in full : j <= k)

\* the content lines of the blocks of ls whose tag is in the set T
LinesOf(ls, T) ==
  LET sel == SelectSeq(Blocks(ls, 1), LAMBDA b : b.tag \in T)
  IN  [k \in 1..Len(sel) |-> sel[k].content]

NoLineBreak(s) == \A k \in 1..Len(s) : s[k] # "\n"

\* C16: content joining.  For every tag other than example the non-empty
\* lines of the tag are joined with single spaces, so the stored content has
\* no line break; for example the lines are joined with newlines, interior
\* empty lines kept, and only the block as a whole is trimmed: an example of
\* k lines is stored as k lines.
C16_ContentJoining ==
  pc = "done" =>
    LET tags == Field(result, "tags")
        ex == LinesOf(lines, {kw_example})
        th == LinesOf(lines, {kw_throws, kw_exception})
    IN  /\ \A k \in 1..Len(tags) :
             LET c == LinesOf(lines, {tags[k].name})
             IN  \A j \in 1..Len(c) :
                   /\ tags[k].values[j] = Join(NonEmptyLines(c[j]), <<" ">>)
                   /\ NoLineBreak(tags[k].values[j])
        /\ \A k \in 1..Len(th) :
             /\ NoLineBreak(result.throws[k].description)
             /\ result.throws[k].type = None =>
                  result.throws[k].description =
                    Join(NonEmptyLines(th[k]), <<" ">>)
        /\ "returns" \in DOMAIN result =>
             NoLineBreak(result.returns.description)
        /\ \A k \in 1..Len(ex) :
             IF TrimBlank(ex[k]) = <<>> THEN result.examples[k] = <<>>
             ELSE Split(result.examples[k], "\n") = TrimBlank(ex[k])

\* a call has returned on an example of three lines, the second one empty,
\* with empty lines around it
C16_Witness ==
  /\ pc = "done"
  /\ "examples" \in DOMAIN result
  /\ result.examples = <<<<"x", "\n", "\n", "y">>>>

\* the lines of ls before its first tag line
LinesBeforeTags(ls) ==
  LET tagged == {k \in 1..Len(ls) : IsTagLine(ls[k])}
  IN  IF tagged = {} THEN ls ELSE SubSeq(ls, 1, Least(tagged) - 1)

\* C17: description assembly.  The free-text part of description is the
\* non-empty cleaned lines before the first tag line, in source order,
\* joined by single newlines; empty lines contribute nothing.  It is the
\* whole description where no @description tag occurs, and the start of it
\* where one does.
C17_Description ==
  pc = "done" =>
    LET free == Join(NonEmptyLines(LinesBeforeTags(lines)), <<"\n">>)
    IN  /\ StartsWith(result.description, free)
        /\ ContentsOf(lines, {kw_description}) = <<>> =>
             result.description = free

\* a call has returned on two lines of text with an empty line between them
C17_Witness ==
  /\ pc = "done"
  /\ \E k \in 2..(Len(lines) - 1) :
       lines[k] = <<>> /\ lines[k - 1] # <<>> /\ lines[k + 1] # <<>>
  /\ result.description = <<"a", "\n", "x", " ", "y">>

\* C18: an explicit @description tag is appended to the description exactly
\* like a description line: its content, where not empty, is added after a
\* newline to a description that is not empty, or becomes the description
\* that is empty; a @description tag with empty content leaves the
\* description unchanged.
C18_DescriptionTag ==
  [][(ProcessesTag /\ current_tag = kw_description) =>
       LET c == Join(NonEmptyLines(current_content), <<" ">>)
       IN  result'.description =
             IF c = <<>> THEN result.description
             ELSE IF result.description # <<>>
                  THEN result.description \o <<"\n">> \o c
             ELSE c]_vars

\* the entry a returns or throws tag leaves in the record
TypedEntry(res, tag) ==
  IF tag \in {kw_returns, kw_return} THEN res.returns ELSE res.throws[1]

\* C19: return/throw parsing.  For @returns/@return and @throws/@exception,
\* where a brace-balanced type stands at the start of the content the
\* description is the trimmed remainder; otherwise (no leading "{", or an
\* opening brace that never closes) the type is absent and the description
\* is the entire joined content, the unmatched brace text included.
C19_TypedText ==
  pc = "done" =>
    LET B == Blocks(lines, 1)
        cs == Join(NonEmptyLines(B[1].content), <<" ">>)
        e == TypedEntry(result, B[1].tag)
    IN  (Len(B) = 1 /\ B[1].tag \in {kw_returns, kw_return, kw_throws,
                                      kw_exception}) =>
          /\ DOMAIN e = {"type", "description"}
          /\ IF HasBalancedType(cs)
             THEN /\ e.type # None
                  /\ e.description = Strip(From(cs, Least(Closers(cs)) + 1))
             ELSE /\ e.type = None
                  /\ e.description = cs

\* a call has returned on a throws tag whose opening brace never closes: the
\* brace and the text after it are the description
C19_Witness ==
  /\ pc = "done"
  /\ "throws" \in DOMAIN result
  /\ result.throws[1].type = None
  /\ result.throws[1].description = <<"{", "a", " ", "{", "a", "}">>

(***************************************************************************)
(* Comment bodies, with and without their markers: every text over a few   *)
(* characters, and texts of the tests written without markers.             *)
(***************************************************************************)
\* the longest text of BodyInputs over BodyAlphabet, in characters
MaxBodyLen == 5

BodyAlphabet == {"/", "*", " ", "\n", "a", "@"}

BodySpecialDocs ==
   \* Description\n@param {string} name The name
  { <<"D", "e", "s", "c", "r", "i", "p", "t", "i", "o", "n", "\n", "@", "p", "a", "r", "a", "m", " ", "{", "s", "t", "r", "i", "n", "g", "}", " ", "n", "a", "m", "e", " ", "T", "h", "e", " ", "n", "a", "m", "e">>,
   \*   a\n * x y\n@example\n\n b \n\n
    <<" ", " ", "a", "\n", " ", "*", " ", "x", " ", "y", "\n", "@", "e", "x", "a", "m", "p", "l", "e", "\n", "\n", " ", "b", " ", "\n", "\n">>,
   \* \n@returns {T} d\n*@see r\n
    <<"\n", "@", "r", "e", "t", "u", "r", "n", "s", " ", "{", "T", "}", " ", "d", "\n", "*", "@", "s", "e", "e", " ", "r", "\n">>}

BodyInputs == SeqsUpTo(BodyAlphabet, MaxBodyLen) \cup BodySpecialDocs

InitBody == StartOn(BodyInputs)

SpecBody == InitBody /\ [][Next]_vars

\* the text, trimmed, has neither marker
Unmarked(B) ==
  /\ ~StartsWith(Strip(B), OpenMarker)
  /\ ~EndsWith(Strip(B), CloseMarker)

\* C20: delimiter tolerance.  For any comment body B that, trimmed, neither
\* starts with the opening marker nor ends with the closing one,
\* parse_jsdoc(B) equals parse_jsdoc of B between the markers.
C20_Delimiters ==
  (pc = "done" /\ Unmarked(docstring)) =>
    result = parse_jsdoc(OpenMarker \o docstring \o CloseMarker)

\* a call has returned on a body of two lines without markers, with blanks
\* around it
C20_Witness ==
  /\ pc = "done"
  /\ Unmarked(docstring)
  /\ docstring # Strip(docstring)
  /\ Contains(docstring, "\n")
  /\ DOMAIN result = {"description", "tags"}
  /\ result.description = <<"a">>

(***************************************************************************)
(* Two calls of parse_jsdoc by two threads, their steps interleaved.       *)
(***************************************************************************)
\* the longest comment of TwoInputs, in lines
MaxTwoLines == 2

TwoPool ==
   \* a
  { <<"a">>,
   \* @param {T} a.b - d
    <<"@", "p", "a", "r", "a", "m", " ", "{", "T", "}", " ", "a", ".", "b", " ", "-", " ", "d">>,
   \* @returns d
    <<"@", "r", "e", "t", "u", "r", "n", "s", " ", "d">>,
   \* @see r
    <<"@", "s", "e", "e", " ", "r">>}

TwoInputs == {Doc(ls) : ls \in SeqsUpTo(TwoPool, MaxTwoLines)}

InitTwo ==
  /\ docstring \in TwoInputs
  /\ pc = "start"
  /\ lines = <<>>
  /\ i = 1
  /\ current_tag = None
  /\ current_content = <<>>
  /\ result = InitResult
  /\ returned = <<>>
  /\ other \in {[NoCall EXCEPT !.docstring = d, !.pc = "start"] :
                  d \in TwoInputs}

SpecTwo == InitTwo /\ [][NextTwo]_vars

\* C21: calls share no state.  For any interleaving of two calls of
\* parse_jsdoc, each returns the record it returns when run alone, two calls
\* on the same input return equal records, no call raises, and the input
\* strings and the record an earlier call returned are left unchanged.
C21_NoSharedState ==
  /\ [](/\ pc # "raised" /\ other.pc # "raised"
        /\ pc = "done" => result = parse_jsdoc(docstring)
        /\ other.pc = "done" => other.result = parse_jsdoc(other.docstring)
        /\ (pc = "done" /\ other.pc = "done"
              /\ docstring = other.docstring) => result = other.result)
  /\ [][/\ docstring' = docstring
        /\ other'.docstring = other.docstring
        /\ pc = "done" => (result' = result /\ returned' = returned)
        /\ other.pc = "done" => other' = other]_vars

\* both calls have returned, on comments that differ
C21_Witness ==
  /\ pc = "done"
  /\ other.pc = "done"
  /\ docstring # other.docstring
  /\ DOMAIN result = {"description", "params", "returns"}
  /\ DOMAIN other.result = {"description", "tags"}

\* the places of the tag lines among the lines read so far
TagLinesRead == {k \in 1..(i - 1) : k <= Len(lines) /\ IsTagLine(lines[k])}

\* C22: line attribution.  Once the first tag line has been seen, every
\* later line that does not itself start a tag is appended to the content of
\* the most recent preceding tag; it is never added to the description, and
\* the accumulator never returns to the state of no open tag before the end
\* of the input.
C22_LineAttribution ==
  /\ [](pc = "scan" =>
          IF TagLinesRead = {} THEN current_tag = None
          ELSE LET last == CHOOSE k \in TagLinesRead :
                             \A j \in TagLinesRead : j <= k
               IN  /\ current_tag = TagMatch(lines[last]).tag
                   /\ current_content =
                        <<TagMatch(lines[last]).rest>> \o
                        SubSeq(lines, last + 1, i - 1))
  /\ [][(pc = "scan" /\ current_tag # None) =>
          /\ current_tag' # None
          /\ (i <= Len(lines) /\ ~IsTagLine(lines[i])) =>
               /\ current_tag' = current_tag
               /\ current_content' = Append(current_content, lines[i])
               /\ result' = result]_vars

\* the scan is past a tag line and two lines of text after it, both in the
\* content of the tag, none in the description
C22_Witness ==
  /\ pc = "scan"
  /\ current_tag = <<"s", "e", "e">>
  /\ current_content = <<<<"r">>, <<"a">>, <<"x", " ", "y">>>>
  /\ result.description = <<>>

RECURSIVE ProcessAll(_, _)
\* the record after one call of _process_tag per block of B, in order
ProcessAll(B, res) ==
  IF B = <<>> THEN res
  ELSE ProcessAll(Tail(B), _process_tag(B[1].tag, B[1].content, res))

\* C23: exactly-once dispatch.  Every tag line of the comment causes exactly
\* one call of tag processing, made when the next tag line is reached or at
\* the end of the input for the last tag, with exactly the lines from its
\* tag line up to the next tag line; tags are processed in source order and
\* the last tag is never lost.  In the loop the record is that of one call
\* per tag line read but the last, and after the loop that of one call per
\* tag line.
C23_ExactlyOnce ==
  pc \in {"scan", "cleanup"} =>
    LET B == Blocks(lines, 1)
        n == Cardinality(TagLinesRead)
        closed == IF pc = "cleanup" THEN n
                  ELSE IF n = 0 THEN 0 ELSE n - 1
        text == NonEmptyLines(LinesBeforeTags(SubSeq(lines, 1, i - 1)))
    IN  /\ pc = "cleanup" => n = Len(B)
        /\ result = ProcessAll(SubSeq(B, 1, closed),
                               [InitResult EXCEPT
                                  !.description = Join(text, <<"\n">>)])

\* the loop has ended on three tags, two of a kind: each has its entry
C23_Witness ==
  /\ pc = "cleanup"
  /\ Len(Blocks(lines, 1)) = 3
  /\ Len(result.throws) = 2
  /\ Len(result.examples) = 1

\* the length of the identifier that leads s: a letter, "_" or "$", then
\* letters, digits, "_", "$", "." and "*"; 0 where s starts with none
LeadLen(s) ==
  LET ends == {n \in 1..Len(s) :
                 /\ s[1] \in NameStart
                 /\ \A k \in 2..n : s[k] \in NameCharStar
                 /\ n < Len(s) => s[n + 1] \notin NameCharStar}
  IN  IF ends = {} THEN 0 ELSE Least(ends)

\* the text of s after the whitespace that follows its first n characters
AfterBlanks(s, n) ==
  LET stops == {k \in (n + 1)..Len(s) : s[k] \notin Space}
  IN  IF stops = {} THEN <<>> ELSE From(s, Least(stops))

\* C24: untyped parameter split.  For a @param tag with no extracted type
\* whose content is an identifier followed by whitespace and more text, the
\* name is the leading identifier and the description is all the text after
\* the first whitespace run, verbatim: a leading dash is kept in the
\* description, and the entry has no default and no optional key.
C24_UntypedSplit ==
  pc = "done" =>
    LET B == Blocks(lines, 1)
        cs == BlockText(B[1])
        n == LeadLen(cs)
    IN  (/\ Len(B) = 1
         /\ IsParamTag(B[1].tag)
         /\ ~HasBalancedType(cs)
         /\ n >= 1
         /\ n < Len(cs)
         /\ cs[n + 1] \in Space
         /\ AfterBlanks(cs, n) # <<>>) =>
          /\ "params" \in DOMAIN result
          /\ Len(result.params) = 1
          /\ DOMAIN OnlyEntry(result) = {"name", "type", "description"}
          /\ OnlyEntry(result).type = None
          /\ OnlyEntry(result).description = AfterBlanks(cs, n)
          /\ IF Dots(Sub(cs, 1, n)) = 0
             THEN result.params[1].name = Sub(cs, 1, n)
             ELSE /\ result.params[1].name = PrefixOf(Sub(cs, 1, n))
                  /\ OnlyEntry(result).name = SuffixOf(Sub(cs, 1, n))

\* a call has returned on "@param a - d": the dash is in the description
C24_Witness ==
  /\ pc = "done"
  /\ Len(Blocks(lines, 1)) = 1
  /\ BlockText(Blocks(lines, 1)[1]) = <<"a", " ", "-", " ", "d">>
  /\ result.params = <<[name |-> <<"a">>, type |-> None,
                        description |-> <<"-", " ", "d">>]>>

\* the places of the top-level parameters of params named n
Named(params, n) == {k \in 1..Len(params) : params[k].name = n}

\* C25: no merge or reordering of parents.  A child is always attached to
\* the first top-level parameter in list order whose name equals its prefix,
\* every other entry staying as and where it is; a declaration of a name is
\* always appended as a new last entry, also when an entry of that name made
\* for a child exists, which keeps its type "Object", its empty description
\* and its place.
C25_NoMerge ==
  [][LET p == ParseParam(ContentStr(current_tag, current_content))
         n == Len(result.params)
     IN  (ProcessesTag /\ IsParamTag(current_tag) /\ p.ok) =>
           IF Dots(p.name) = 0
           THEN /\ Len(result'.params) = n + 1
                /\ SubSeq(result'.params, 1, n) = result.params
                /\ result'.params[n + 1].name = p.name
                /\ result'.params[n + 1].type = p.type
                /\ "properties" \notin DOMAIN result'.params[n + 1]
           ELSE Named(result.params, PrefixOf(p.name)) # {} =>
                  LET k == Least(Named(result.params, PrefixOf(p.name)))
                      old == Field(result.params[k], "properties")
                  IN  /\ Len(result'.params) = n
                      /\ \A j \in (1..n) \ {k} :
                           result'.params[j] = result.params[j]
                      /\ \A f \in DOMAIN result.params[k] \ {"properties"} :
                           result'.params[k][f] = result.params[k][f]
                      /\ Len(result'.params[k].properties) = Len(old) + 1
                      /\ SubSeq(result'.params[k].properties, 1, Len(old))
                           = old
                      /\ result'.params[k].properties[Len(old) + 1].name =
                           SuffixOf(p.name)]_vars

\* a call has returned on a child, then the declaration of its parent, then
\* a second child: the parent made for the first child holds both children
\* and the declaration is a second entry of the same name
C25_Witness ==
  /\ pc = "done"
  /\ DeclaredNames(lines) =
       <<<<"a", ".", "b">>, <<"a">>, <<"a", ".", "c">>>>
  /\ Len(result.params) = 2
  /\ result.params[1].type = Object
  /\ result.params[1].description = <<>>
  /\ Len(result.params[1].properties) = 2
  /\ result.params[2].name = <<"a">>
  /\ "properties" \notin DOMAIN result.params[2]

(***************************************************************************)
(* Comments of tags whose names differ from the known ones in case only.   *)
(***************************************************************************)
\* the longest comment of CaseInputs, in lines
MaxCaseLines == 3

CasePool ==
   \* x
  { <<"x">>,
   \* @Param {T} a - d
    <<"@", "P", "a", "r", "a", "m", " ", "{", "T", "}", " ", "a", " ", "-", " ", "d">>,
   \* @Returns {T} d
    <<"@", "R", "e", "t", "u", "r", "n", "s", " ", "{", "T", "}", " ", "d">>,
   \* @THROWS {E} d
    <<"@", "T", "H", "R", "O", "W", "S", " ", "{", "E", "}", " ", "d">>,
   \* @Example
    <<"@", "E", "x", "a", "m", "p", "l", "e">>,
   \* @Description d
    <<"@", "D", "e", "s", "c", "r", "i", "p", "t", "i", "o", "n", " ", "d">>,
   \* @param {T} a
    <<"@", "p", "a", "r", "a", "m", " ", "{", "T", "}", " ", "a">>,
   \* @returns d
    <<"@", "r", "e", "t", "u", "r", "n", "s", " ", "d">>}

CaseInputs == {Doc(ls) : ls \in SeqsUpTo(CasePool, MaxCaseLines)}

InitCase == StartOn(CaseInputs)

SpecCase == InitCase /\ [][Next]_vars

KnownNames ==
  {kw_param, kw_argument, kw_arg, kw_returns, kw_return, kw_throws,
   kw_exception, kw_example, kw_description}

\* the name differs from a known name in the case of its letters only
CaseVariant(tag) == tag \notin KnownNames /\ ToLower(tag) \in KnownNames

\* C26: tag dispatch is case-sensitive.  A tag whose name differs from a
\* known tag or alias only in letter case is treated as an unknown tag: the
\* step that processes it stores its content under tags with that exact
\* name and adds nothing to params, returns, throws, examples or
\* description.
C26_CaseSensitive ==
  [][(ProcessesTag /\ CaseVariant(current_tag)) =>
       /\ \A f \in {"description", "params", "returns", "throws",
                    "examples"} : result'[f] = result[f]
       /\ \E k \in 1..Len(result'.tags) :
            /\ result'.tags[k].name = current_tag
            /\ result'.tags[k].values =
                 (IF k <= Len(result.tags) THEN result.tags[k].values
                  ELSE <<>>) \o
                 <<Join(NonEmptyLines(current_content), <<" ">>)>>
            /\ \A j \in 1..Len(result.tags) :
                 j # k => result'.tags[j] = result.tags[j]
            /\ Len(result'.tags) = IF k <= Len(result.tags)
                                   THEN Len(result.tags)
                                   ELSE Len(result.tags) + 1]_vars

\* a call has returned on @Param, @Returns and @THROWS: three names under
\* tags and no other key but description
C26_Witness ==
  /\ pc = "done"
  /\ DOMAIN result = {"description", "tags"}
  /\ [k \in 1..Len(result.tags) |-> result.tags[k].name] =
       <<<<"P", "a", "r", "a", "m">>, <<"R", "e", "t", "u", "r", "n", "s">>,
         <<"T", "H", "R", "O", "W", "S">>>>


\* C27: top-level name invariant.  In every record, every entry of params
\* has a non-empty name that starts with a letter, underscore or dollar
\* sign, never a digit, and contains no dot.
C27_TopLevelName ==
  "params" \in DOMAIN result =>
    \A k \in 1..Len(result.params) :
      LET n == result.params[k].name
      IN  /\ n # <<>>
          /\ n[1] \in Lower \cup Upper \cup {"_", "$"}
          /\ n[1] \notin Digit
          /\ Dots(n) = 0

\* a call has returned on a dotted name, a digit-led name and the name "b":
\* the record holds the parent of the first and the entry of the last
C27_Witness ==
  /\ pc = "done"
  /\ Len(ParamBlocks(lines)) = 3
  /\ \E b \in 1..3 : Discarded(ParamBlocks(lines)[b].tag,
                               ParamBlocks(lines)[b].content)
  /\ "params" \in DOMAIN result
  /\ Len(result.params) = 2
  /\ "properties" \in DOMAIN result.params[1]
  /\ result.params[2].name = <<"b">>

\* C28: the properties key is present only on parameters that have dotted
\* children.  In every record a properties list is never empty, and in the
\* record returned a top-level parameter has a properties key if and only
\* if at least one child was folded into it, with one property per child.
C28_PropertiesKey ==
  "params" \in DOMAIN result =>
    /\ \A k \in 1..Len(result.params) :
         "properties" \in DOMAIN result.params[k] =>
           Len(result.params[k].properties) >= 1
    /\ pc = "done" =>
         LET names == DeclaredNames(lines)
         IN  \A k \in 1..Len(result.params) :
               LET e == result.params[k]
                   folded == IF k = Least(Named(result.params, e.name))
                             THEN ChildrenOf(names, e.name)
                             ELSE {}
               IN  /\ "properties" \in DOMAIN e <=> folded # {}
                   /\ "properties" \in DOMAIN e =>
                        Len(e.properties) = Cardinality(folded)

\* a call has returned on "b", "a" and "a.b": the first entry has no
\* properties key, the second has one of one child
C28_Witness ==
  /\ pc = "done"
  /\ DeclaredNames(lines) = <<<<"b">>, <<"a">>, <<"a", ".", "b">>>>
  /\ Len(result.params) = 2
  /\ "properties" \notin DOMAIN result.params[1]
  /\ "properties" \in DOMAIN result.params[2]
  /\ Len(result.params[2].properties) = 1


(***************************************************************************)
(* Comments of dotted parameter names whose text after the first dot is    *)
(* empty, digit-led or dot-led.                                            *)
(***************************************************************************)
\* the longest comment of DotInputs, in tags
MaxDotTags == 3

DotPool ==
   \* @param {T} a
  { <<"@", "p", "a", "r", "a", "m", " ", "{", "T", "}", " ", "a">>,
   \* @param {T} a.b
    <<"@", "p", "a", "r", "a", "m", " ", "{", "T", "}", " ", "a", ".", "b">>,
   \* @param {T} a.0b
    <<"@", "p", "a", "r", "a", "m", " ", "{", "T", "}", " ", "a", ".", "0", "b">>,
   \* @param {T} a.
    <<"@", "p", "a", "r", "a", "m", " ", "{", "T", "}", " ", "a", ".">>,
   \* @param a..b
    <<"@", "p", "a", "r", "a", "m", " ", "a", ".", ".", "b">>,
   \* @param {T} [a.=1] - d
    <<"@", "p", "a", "r", "a", "m", " ", "{", "T", "}", " ", "[", "a", ".", "=", "1", "]", " ", "-", " ", "d">>}

DotInputs == {Doc(ls) : ls \in SeqsUpTo(DotPool, MaxDotTags)}

InitDots == StartOn(DotInputs)

SpecDots == InitDots /\ [][Next]_vars

\* C29: property name invariant.  Every record stored in a properties list
\* has a non-empty name that does not start with a digit, for every
\* accepted dotted parameter name, "a.0b", "a." and "a..b" included.
C29_PropertyName ==
  "params" \in DOMAIN result =>
    \A k \in 1..Len(result.params) :
      "properties" \in DOMAIN result.params[k] =>
        \A q \in 1..Len(result.params[k].properties) :
          LET n == result.params[k].properties[q].name
          IN  n # <<>> /\ n[1] \notin Digit


(***************************************************************************)
(* Comments of one typed, bracket-wrapped parameter with a default value:  *)
(* "@param {T} [", a name, "=", a default, "]" and a suffix.               *)
(***************************************************************************)
DefaultNames ==
   \* a
  { <<"a">>,
   \* list
    <<"l", "i", "s", "t">>,
   \* o.p
    <<"o", ".", "p">>}

DefaultTexts ==
   \* 1
  { <<"1">>,
   \* 'x'
    <<"'", "x", "'">>,
   \* a-b
    <<"a", "-", "b">>,
   \* [1,2]
    <<"[", "1", ",", "2", "]">>,
   \* []
    <<"[", "]">>,
   \* {a: 1}
    <<"{", "a", ":", " ", "1", "}">>,
   \* {}
    <<"{", "}">>}

DefaultSuffixes ==
   \* (empty)
  { <<>>,
   \*  - d
    <<" ", "-", " ", "d">>,
   \* - d
    <<"-", " ", "d">>,
   \*  -d
    <<" ", "-", "d">>}

DefaultInputs ==
  {Doc(<<<<"@">> \o kw_param \o <<" ", "{", "T", "}", " ", "[">> \o nm \o
         <<"=">> \o df \o <<"]">> \o sf>>) :
     nm \in DefaultNames, df \in DefaultTexts, sf \in DefaultSuffixes}

InitDefault == StartOn(DefaultInputs)

SpecDefault == InitDefault /\ [][Next]_vars

\* the place of the "]" that closes the "[" at the start of s: the first
\* place up to which s has as many "]" as "["
ClosingBracket(s) ==
  Least({j \in 1..Len(s) :
           /\ s[j] = "]"
           /\ Cardinality({k \in 1..j : s[k] = "["}) =
                Cardinality({k \in 1..j : s[k] = "]"})})

\* s is "[name=default]" and nothing, or a dash and a description, after it
WrappedDefault(s) ==
  /\ StartsWith(s, <<"[">>)
  /\ \E j \in 1..Len(s) :
       /\ s[j] = "]"
       /\ Cardinality({k \in 1..j : s[k] = "["}) =
            Cardinality({k \in 1..j : s[k] = "]"})
  /\ LET inner == Sub(s, 2, ClosingBracket(s) - 1)
         eqs == {k \in 1..Len(inner) : inner[k] = "="}
         rest == LStrip(From(s, ClosingBracket(s) + 1))
     IN  /\ eqs # {}
         /\ IsName(Sub(inner, 1, Least(eqs) - 1))
         /\ Least(eqs) < Len(inner)
         /\ rest = <<>> \/ rest[1] = "-"

\* the text between the first "=" and the closing "]" of a WrappedDefault
DefaultOf(s) ==
  LET inner == Sub(s, 2, ClosingBracket(s) - 1)
  IN  From(inner, 1 + Least({k \in 1..Len(inner) : inner[k] = "="}))

\* C30: default-value extent.  For a typed bracket-wrapped parameter
\* "[name=default]" an entry is produced whose default is everything between
\* "=" and the closing "]", with no further parsing of the default, also
\* when the default text itself contains brackets ("[list=[1,2]] - d") or
\* braces ("[o={a: 1}]").
C30_DefaultExtent ==
  pc = "done" =>
    LET B == Blocks(lines, 1)
        ex == _extract_type_from_braces(BlockText(B[1]))
    IN  (Len(B) = 1 /\ IsParamTag(B[1].tag) /\ ex[1] # None
           /\ WrappedDefault(ex[2])) =>
          /\ "params" \in DOMAIN result
          /\ "default" \in DOMAIN OnlyEntry(result)
          /\ OnlyEntry(result).default = DefaultOf(ex[2])

====
